---- MODULE Spec2Model ----
(***************************************************************************)
(* A model of the simulation core of the roguelike: the grid and its       *)
(* occupancy (gamemap.rs), line rasterisation (los.rs), the pathfinder     *)
(* (pathfinding.rs), dungeon generation (app/procgen.rs) and the turn      *)
(* scheduler with the actions it drives (engine.rs).                       *)
(*                                                                         *)
(* Handlers of the program take `app: &mut App`; here they are operators   *)
(* from an app record to an app record.  A Rust panic is the field `panic` *)
(* of the record becoming TRUE: every later operation leaves a panicked    *)
(* record alone, as the process is gone.                                   *)
(***************************************************************************)
EXTENDS Integers, Sequences, FiniteSets, TLC

VARIABLES
  gamemap,       \* App.gamemap: the current floor
  objects,       \* App.objects: id -> object (the object store)
  action_queue,  \* App.action_queue: the pending (time, id) entries
  time,          \* App.time: the game clock
  pc,            \* where the running handler or loop stands
  gen,           \* locals of a running generate_dungeon (dungeon, rooms, ...)
  pf,            \* a constructed Pathfinder (costs, dists, prev, root ...)
  last           \* the last call made and what it returned

vars == <<gamemap, objects, action_queue, time, pc, gen, pf, last>>

(***************************************************************************)
(* Basic values                                                            *)
(***************************************************************************)

\* Option::None of an Option<usize> (ids are >= 0)
None == -1

\* id of the player object
PLAYER == 0

\* u16 arithmetic wraps modulo 2^16 (release) or panics (debug)
U16 == 2^16

\* the u32::MAX sentinel of the distance array.  TLC's integers end at
\* 2^31 - 1, which stands for it here: the distances of the bounded inputs
\* stay far below both, so no sum wraps
U32MAX == 2147483647

Abs(v) == IF v < 0 THEN -v ELSE v
Min(a, b) == IF a < b THEN a ELSE b
Max(a, b) == IF a > b THEN a ELSE b

\* `v as u16` of an i32 / i16 value
AsU16(v) == v % U16

\* a finite map with one key added or replaced (HashMap::insert)
MapPut(f, k, v) == [j \in (DOMAIN f) \cup {k} |-> IF j = k THEN v ELSE f[j]]

\* a finite map with one key removed (HashMap::remove)
MapRemove(f, k) == [j \in (DOMAIN f) \ {k} |-> f[j]]

EmptyMap == [j \in {} |-> None]

(***************************************************************************)
(* los.rs: bresenham                                                       *)
(***************************************************************************)

\* the loop of the branch dx > dy (it runs on x)
RECURSIVE BresenhamLoopX(_, _, _, _, _, _, _, _, _)
BresenhamLoopX(x, y, fraction, x2, stepx, stepy, dx, dy, path) ==
  IF x = x2 THEN path
  ELSE LET nx == x + stepx
           ny == IF fraction >= 0 THEN y + stepy ELSE y
           f1 == IF fraction >= 0 THEN fraction - 2 * dx ELSE fraction
       IN BresenhamLoopX(nx, ny, f1 + 2 * dy, x2, stepx, stepy, dx, dy,
                         Append(path, <<nx, ny>>))

\* the loop of the other branch (it runs on y)
RECURSIVE BresenhamLoopY(_, _, _, _, _, _, _, _, _)
BresenhamLoopY(x, y, fraction, y2, stepx, stepy, dx, dy, path) ==
  IF y = y2 THEN path
  ELSE LET nx == IF fraction >= 0 THEN x + stepx ELSE x
           f1 == IF fraction >= 0 THEN fraction - 2 * dy ELSE fraction
           ny == y + stepy
       IN BresenhamLoopY(nx, ny, f1 + 2 * dx, y2, stepx, stepy, dx, dy,
                         Append(path, <<nx, ny>>))

\* the x extent as the code computes it: (x2 - y1).abs()
BresenhamDx(x1, y1, x2, y2) == Abs(x2 - y1)

\* bresenham(start, end): the cells of the rasterised line, start first
bresenham(start, end) ==
  LET x1 == start[1]
      y1 == start[2]
      x2 == end[1]
      y2 == end[2]
      dx == BresenhamDx(x1, y1, x2, y2)
      dy == Abs(y2 - y1)
      stepx == IF x2 - x1 > 0 THEN 1 ELSE -1
      stepy == IF y2 - y1 > 0 THEN 1 ELSE -1
  IN IF dx > dy
       THEN BresenhamLoopX(x1, y1, 2 * dy - dx, x2, stepx, stepy, dx, dy, <<start>>)
       ELSE BresenhamLoopY(x1, y1, 2 * dx - dy, y2, stepx, stepy, dx, dy, <<start>>)

(***************************************************************************)
(* gamemap.rs: tiles and the grid                                          *)
(***************************************************************************)

ITEM_DROP_RADIUS == 2

\* Tile::new(tile_type)
NewTile(tile_type) == [tile_type |-> tile_type, item |-> None, blocker |-> None]

is_walkable(tile) == tile.tile_type = "Floor"

is_transparent(tile) == tile.tile_type = "Floor"

\* coords_to_idx: x + y * width, before any u16 wrap
coords_to_idx(x, y, width) == x + y * width

idx_to_coords(idx, width) == <<AsU16(idx) % width, AsU16(idx) \div width>>

\* GameMap::new: all walls, nothing visible, nothing explored, no objects
NewGameMap(width, height, level) ==
  [width |-> width, height |-> height, level |-> level,
   tiles |-> [i \in 0 .. (width * height - 1) |-> NewTile("Wall")],
   visible |-> [i \in 0 .. (width * height - 1) |-> FALSE],
   explored |-> [i \in 0 .. (width * height - 1) |-> FALSE],
   objects |-> EmptyMap,
   panic |-> FALSE]

Cells(gm) == (0 .. (gm.width - 1)) \X (0 .. (gm.height - 1))

in_bounds(gm, x, y) == 0 <= x /\ x < gm.width /\ 0 <= y /\ y < gm.height

\* get_ref / get_mut on coordinates the caller has validated
get_ref(gm, x, y) == gm.tiles[coords_to_idx(x, y, gm.width)]

is_visible(gm, x, y) == gm.visible[coords_to_idx(x, y, gm.width)]

is_explored(gm, x, y) == gm.explored[coords_to_idx(x, y, gm.width)]

\* Option::None of an Option<Position> (a position is a pair <<x, y>>)
NonePos == <<>>

\* get_position: Some(pos) or None
get_position(gm, id) == IF id \in DOMAIN gm.objects THEN gm.objects[id] ELSE NonePos

Panicked(gm) == [gm EXCEPT !.panic = TRUE]

\* place_blocker without its walkability check
PlaceBlockerOk_IgnoresTerrain(tile) == tile.blocker = None

\* the condition under which place_blocker stores the id
PlaceBlockerOk(tile) == is_walkable(tile) /\ tile.blocker = None

\* the condition under which place_item stores the id
PlaceItemOk(tile) == is_walkable(tile) /\ tile.item = None

place_blocker(gm, id, x, y) ==
  IF gm.panic THEN gm
  ELSE IF PlaceBlockerOk(get_ref(gm, x, y))
    THEN [gm EXCEPT !.tiles[coords_to_idx(x, y, gm.width)].blocker = id,
                    !.objects = MapPut(@, id, <<x, y>>)]
    ELSE Panicked(gm)

place_item(gm, id, x, y) ==
  IF gm.panic THEN gm
  ELSE IF PlaceItemOk(get_ref(gm, x, y))
    THEN [gm EXCEPT !.tiles[coords_to_idx(x, y, gm.width)].item = id,
                    !.objects = MapPut(@, id, <<x, y>>)]
    ELSE Panicked(gm)

\* faulty variant: the id-to-position entry is not removed
RemoveBlockerEffect_KeepsPosition(gm, x, y) ==
  [gm EXCEPT !.tiles[coords_to_idx(x, y, gm.width)].blocker = None]

\* what remove_blocker does to the grid when a blocker is there
RemoveBlockerEffect(gm, x, y) ==
  [gm EXCEPT !.tiles[coords_to_idx(x, y, gm.width)].blocker = None,
             !.objects = MapRemove(@, get_ref(gm, x, y).blocker)]

\* remove_blocker: the grid afterwards (its return value is RemovedBlocker)
remove_blocker(gm, x, y) ==
  IF gm.panic THEN gm
  ELSE IF get_ref(gm, x, y).blocker # None
    THEN RemoveBlockerEffect(gm, x, y)
    ELSE Panicked(gm)

\* the id remove_blocker returns
RemovedBlocker(gm, x, y) == get_ref(gm, x, y).blocker

remove_item(gm, x, y) ==
  IF gm.panic THEN gm
  ELSE IF get_ref(gm, x, y).item # None
    THEN [gm EXCEPT !.tiles[coords_to_idx(x, y, gm.width)].item = None,
                    !.objects = MapRemove(@, get_ref(gm, x, y).item)]
    ELSE Panicked(gm)

RemovedItem(gm, x, y) == get_ref(gm, x, y).item

\* the directions area_place_item spreads its search in
DropDirs == {<<-1, 0>>, <<1, 0>>, <<0, -1>>, <<0, 1>>}

\* a search that goes on beyond the drop radius
DropOpen_AnyDistance(gm, x, y, c) == is_walkable(get_ref(gm, c[1], c[2]))

\* whether the search goes on at a tile it took from its queue: the tile is
\* within the drop radius of (x, y) and walkable
DropOpen(gm, x, y, c) ==
  /\ Max(Abs(c[1] - x), Abs(c[2] - y)) <= ITEM_DROP_RADIUS
  /\ is_walkable(get_ref(gm, c[1], c[2]))

\* the tiles area_place_item can drop on.  The queue is served first in,
\* first out, so the tiles come off it in rounds: the tiles of a round are
\* the unvisited in-bounds neighbours of the tiles of the round before at
\* which the search went on.  The first tile without an item at which the
\* search goes on receives the item; the directions are shuffled, so within
\* its round any such tile can be the first
RECURSIVE DropSearch(_, _, _, _, _)
DropSearch(gm, x, y, round, visited) ==
  LET open == {c \in round : DropOpen(gm, x, y, c)}
      free == {c \in open : get_ref(gm, c[1], c[2]).item = None}
      pushed == {n \in {<<c[1] + d[1], c[2] + d[2]>> : c \in open, d \in DropDirs} :
                   in_bounds(gm, n[1], n[2])} \ visited
  IN IF free # {} THEN free
     ELSE IF pushed = {} THEN {}
     ELSE DropSearch(gm, x, y, pushed, visited \cup pushed)

\* what area_place_item(x, y, id) can return: positions, or None
DropReturns(gm, x, y) ==
  LET found == DropSearch(gm, x, y, {<<x, y>>}, {<<x, y>>})
  IN IF found = {} THEN {NonePos} ELSE found

\* area_place_item(x, y, id) that returns ret: the grid afterwards
area_place_item(gm, x, y, id, ret) ==
  IF gm.panic \/ ret = NonePos THEN gm ELSE place_item(gm, id, ret[1], ret[2])

(***************************************************************************)
(* pathfinding.rs: Pathfinder                                              *)
(***************************************************************************)

CardinalDirs == << <<1, 0>>, <<0, 1>>, <<-1, 0>>, <<0, -1>> >>

DiagonalDirs == << <<1, 1>>, <<-1, 1>>, <<1, -1>>, <<-1, -1>> >>

\* a search that only steps in the four cardinal directions
Dirs_CardinalOnly == CardinalDirs

\* cardinal_dirs.iter().chain(diagonal_dirs.iter())
Dirs == CardinalDirs \o DiagonalDirs

\* the order of the heap's entries (cost, (x, y)): tuples compare field by field
HeapEntryLess(a, b) ==
  \/ a[1] < b[1]
  \/ a[1] = b[1] /\ a[2] < b[2]
  \/ a[1] = b[1] /\ a[2] = b[2] /\ a[3] < b[3]

\* BinaryHeap<Reverse<_>>::pop: the least entry
HeapPop(heap) == CHOOSE a \in heap : \A b \in heap : a = b \/ HeapEntryLess(a, b)

\* faulty variant: the impassable test left out
CanWalkInto_Always(costs, idx) == TRUE

\* a cell the search may enter: the negation of `costs[target_idx] <= 0`
CanWalkInto(costs, idx) == costs[idx] > 0

\* a step weight that takes every step for a cardinal one
StepCost_AlwaysCardinal(p, dx, dy) == p.cardinal

\* the weight added for one step in direction (dx, dy)
StepCost(p, dx, dy) == IF Abs(dx) + Abs(dy) = 1 THEN p.cardinal ELSE p.diagonal

\* the for loop over the 8 directions for the popped entry (cost, (x, y)),
\* from direction k on; st holds dists, prev and the heap
RECURSIVE RelaxDirs(_, _, _, _, _, _)
RelaxDirs(p, st, cost, x, y, k) ==
  IF k > Len(Dirs) THEN st
  ELSE LET dx == Dirs[k][1]
           dy == Dirs[k][2]
           tx == x + dx
           ty == y + dy
           target_idx == coords_to_idx(tx, ty, p.width)
           cur_idx == coords_to_idx(x, y, p.width)
           target_dist == cost + p.costs[target_idx] + StepCost(p, dx, dy)
       IN IF ~(0 <= tx /\ tx < p.width /\ 0 <= ty /\ ty < p.height)
            THEN RelaxDirs(p, st, cost, x, y, k + 1)
          ELSE IF ~CanWalkInto(p.costs, target_idx)
            THEN RelaxDirs(p, st, cost, x, y, k + 1)
          ELSE IF st.dists[target_idx] > target_dist
            THEN RelaxDirs(p,
                           [dists |-> [st.dists EXCEPT ![target_idx] = target_dist],
                            prev |-> [st.prev EXCEPT ![target_idx] = cur_idx],
                            heap |-> st.heap \cup {<<target_dist, tx, ty>>}],
                           cost, x, y, k + 1)
          ELSE RelaxDirs(p, st, cost, x, y, k + 1)

\* the while loop of dijkstra
RECURSIVE DijkstraLoop(_, _)
DijkstraLoop(p, st) ==
  IF st.heap = {} THEN st
  ELSE LET top == HeapPop(st.heap)
           popped == [st EXCEPT !.heap = @ \ {top}]
       IN IF top[1] > st.dists[coords_to_idx(top[2], top[3], p.width)]
            THEN DijkstraLoop(p, popped)
            ELSE DijkstraLoop(p, RelaxDirs(p, popped, top[1], top[2], top[3], 1))

\* the state dijkstra starts its loop from: every distance u32::MAX, every
\* predecessor usize::MAX (None here), the heap holding (0, root)
DijkstraStart(p) ==
  [dists |-> [i \in DOMAIN p.costs |-> U32MAX],
   prev |-> [i \in DOMAIN p.costs |-> None],
   heap |-> {<<0, p.root[1], p.root[2]>>}]

\* Pathfinder::new: the pathfinder with dists and prev filled by dijkstra
Pathfinder_new(costs, root, width, height, cardinal, diagonal) ==
  LET p == [costs |-> costs, root |-> root, width |-> width, height |-> height,
            cardinal |-> cardinal, diagonal |-> diagonal]
      st == DijkstraLoop(p, DijkstraStart(p))
  IN [costs |-> costs, root |-> root, width |-> width, height |-> height,
      cardinal |-> cardinal, diagonal |-> diagonal,
      dists |-> st.dists, prev |-> st.prev]

\* the placeholder path_to returns for an unreached destination
SentinelPath == << <<490, 490>> >>

\* the while loop of path_to, building the path dest-first
RECURSIVE PathWalk(_, _, _)
PathWalk(p, cur, path) ==
  IF cur = p.root THEN path
  ELSE PathWalk(p, idx_to_coords(p.prev[coords_to_idx(cur[1], cur[2], p.width)], p.width),
                Append(path, cur))

\* a path handed out dest-first, as the walk built it
Reverse_Kept(s) == s

\* path.reverse()
Reverse(s) == [i \in 1 .. Len(s) |-> s[Len(s) + 1 - i]]

\* whether path_to takes its early return
Unreached(p, dest) == p.dists[coords_to_idx(dest[1], dest[2], p.width)] = U32MAX

path_to(p, dest) ==
  IF Unreached(p, dest) THEN SentinelPath
  ELSE Reverse(PathWalk(p, dest, <<>>))


(***************************************************************************)
(* components.rs, entities.rs: objects                                     *)
(***************************************************************************)

\* time before melee ai forgets about its target
MELEE_FORGET_TIME == 500

\* Object::new: every Option<_> component None.  The components are flattened
\* into the record: has_fighter / has_ai say whether the component is Some
NewObject(name) ==
  [name |-> name, alive |-> TRUE,
   has_fighter |-> FALSE, max_hp |-> 0, hp |-> 0, defense |-> 0, power |-> 0,
   death_callback |-> "None",
   has_ai |-> FALSE, target |-> None, last_seen_time |-> None,
   move_speed |-> 0, attack_speed |-> 0,
   item |-> "None"]

\* .set_fighter(Fighter::new(max_hp, defense, power, death_callback))
set_fighter(obj, max_hp, defense, power, death_callback) ==
  [obj EXCEPT !.has_fighter = TRUE, !.max_hp = max_hp, !.hp = max_hp,
              !.defense = defense, !.power = power,
              !.death_callback = death_callback]

\* .set_ai(AIType::Melee(MeleeAIData::new().set_move_speed(m).set_attack_speed(a)))
set_ai(obj, move_speed, attack_speed) ==
  [obj EXCEPT !.has_ai = TRUE, !.target = None, !.last_seen_time = None,
              !.move_speed = move_speed, !.attack_speed = attack_speed]

\* MeleeAIData::new(): move_speed and attack_speed
DefaultSpeed == 100

player == set_fighter(NewObject("Player"), 20, 0, 2, "Player")

orc == set_ai(set_fighter(NewObject("Orc"), 6, 0, 2, "Monster"), DefaultSpeed, DefaultSpeed)

rat == set_ai(set_fighter(NewObject("Rat"), 5, 0, 2, "Monster"), 75, 75)

troll == set_ai(set_fighter(NewObject("Troll"), 10, 1, 5, "Monster"), 150, 150)

stairs == [NewObject("Stairs") EXCEPT !.item = "None"]

potion_cure_wounds == [NewObject("potion of cure wounds") EXCEPT !.item = "Heal"]

scroll_lightning == [NewObject("scroll of lightning") EXCEPT !.item = "Lightning"]

weapon_dagger == [NewObject("dagger") EXCEPT !.item = "Equipment"]

weapon_longsword == [NewObject("longsword") EXCEPT !.item = "Equipment"]

helmet == [NewObject("helmet") EXCEPT !.item = "Equipment"]

leather_armor == [NewObject("leather armor") EXCEPT !.item = "Equipment"]

plate_armor == [NewObject("plate armor") EXCEPT !.item = "Equipment"]

\* the id ObjectStore::add gives a new object: ids are handed out in
\* increasing order and never reused
NextId(store) == IF DOMAIN store = {} THEN PLAYER
                 ELSE 1 + CHOOSE i \in DOMAIN store : \A j \in DOMAIN store : j <= i

\* ObjectStore::add: the store with the object under its new id
objects_add(store, obj) == MapPut(store, NextId(store), obj)

(***************************************************************************)
(* app/procgen.rs: dungeon generation                                      *)
(***************************************************************************)

\* RectangularRoom::new
RectangularRoom(x, y, width, height) ==
  [x1 |-> x, y1 |-> y, x2 |-> x + width, y2 |-> y + height]

\* RectangularRoom::center
center(room) == <<(room.x1 + room.x2) \div 2, (room.y1 + room.y2) \div 2>>

\* RectangularRoom::inner: the cells on the inside of the room
inner(room) == ((room.x1 + 1) .. (room.x2 - 1)) \X ((room.y1 + 1) .. (room.y2 - 1))

\* an overlap test that lets rooms share an edge
intersects_Strict(room, other) ==
  /\ room.x1 < other.x2 /\ room.x2 > other.x1
  /\ room.y1 < other.y2 /\ room.y2 > other.y1

\* RectangularRoom::intersects
intersects(room, other) ==
  /\ room.x1 <= other.x2 /\ room.x2 >= other.x1
  /\ room.y1 <= other.y2 /\ room.y2 >= other.y1

\* a sequence of cells with every coordinate cast `as u16`
CastPath(path) == [i \in 1 .. Len(path) |-> <<AsU16(path[i][1]), AsU16(path[i][2])>>]

\* tunnel_between(start, end): corner_first is the outcome of rng.random()
tunnel_between(start, end, corner_first) ==
  LET corner == IF corner_first THEN <<end[1], start[2]>> ELSE <<start[1], end[2]>>
  IN CastPath(bresenham(start, corner)) \o CastPath(bresenham(corner, end))

\* from_dungeon_level: the value of the last transition at or below level,
\* 0 when there is none
from_dungeon_level(table, level) ==
  LET hits == {i \in 1 .. Len(table) : level >= table[i].level}
  IN IF hits = {} THEN 0
     ELSE table[CHOOSE i \in hits : \A j \in hits : j <= i].value

Transition(level, value) == [level |-> level, value |-> value]

\* monster_table(level): (spawn callback, weight) pairs
monster_table(level) ==
  << <<orc, 80>>,
     <<rat, from_dungeon_level(<<Transition(2, 30), Transition(3, 50), Transition(5, 70)>>, level)>>,
     <<troll, from_dungeon_level(<<Transition(3, 30), Transition(5, 45), Transition(7, 60)>>, level)>> >>

\* item_table(level)
item_table(level) ==
  << <<potion_cure_wounds, 30>>,
     <<scroll_lightning, from_dungeon_level(<<Transition(2, 15)>>, level)>>,
     <<weapon_dagger, 5>>,
     <<weapon_longsword, from_dungeon_level(<<Transition(4, 5)>>, level)>>,
     <<helmet, from_dungeon_level(<<Transition(3, 5)>>, level)>>,
     <<leather_armor, from_dungeon_level(<<Transition(2, 5)>>, level)>>,
     <<plate_armor, from_dungeon_level(<<Transition(5, 5)>>, level)>> >>

MAX_MONSTERS_TABLE == <<Transition(1, 2), Transition(4, 3), Transition(6, 4)>>

MAX_ITEMS_TABLE == <<Transition(1, 1), Transition(3, 2)>>

\* the indices WeightedIndex can sample: those of positive weight
Samples(object_weights) == {i \in 1 .. Len(object_weights) : object_weights[i][2] > 0}

\* the delay place_objects gives a monster's first action
FIRST_ACTION_DELAY == 100

\* `*dungeon.get_mut(x, y) = Tile::new(TileType::Floor)` for u16 coordinates x, y.
\* x + y * width is u16 arithmetic: past 2^16 - 1 the debug build panics and the
\* release build wraps; an index past the tile array panics in both
CarveTile(dungeon, x, y, build) ==
  LET raw == coords_to_idx(x, y, dungeon.width)
      idx == raw % U16
  IN IF dungeon.panic THEN dungeon
     ELSE IF raw >= U16 /\ build = "debug" THEN Panicked(dungeon)
     ELSE IF idx \notin DOMAIN dungeon.tiles THEN Panicked(dungeon)
     ELSE [dungeon EXCEPT !.tiles[idx] = NewTile("Floor")]

\* the for loops that carve a list of cells, in order
RECURSIVE CarveAll(_, _, _, _)
CarveAll(dungeon, cells, k, build) ==
  IF k > Len(cells) THEN dungeon
  ELSE CarveAll(CarveTile(dungeon, cells[k][1], cells[k][2], build), cells, k + 1, build)

\* a set of cells as a list (inner() yields them row by row; carving them in
\* any order gives the same tiles)
RECURSIVE SetToSeq(_)
SetToSeq(S) == IF S = {} THEN <<>>
               ELSE LET c == CHOOSE c \in S : TRUE IN <<c>> \o SetToSeq(S \ {c})

\* whether the new room intersects a room accepted before
has_intersection(rooms, new_room) ==
  \E i \in 1 .. Len(rooms) : intersects(rooms[i], new_room)

\* one iteration of the room loop of generate_dungeon on the drawn
\* room_width, room_height, x, y and tunnel corner.  G holds the locals
\* dungeon and rooms (and the app's objects and action_queue)
RoomAttempt(G, room_width, room_height, x, y, corner_first, build) ==
  LET new_room == RectangularRoom(x, y, room_width, room_height)
      dug == CarveAll(G.dungeon, SetToSeq(inner(new_room)), 1, build)
      tunnelled ==
        IF G.rooms = <<>> THEN dug
        ELSE CarveAll(dug,
                      tunnel_between(center(G.rooms[Len(G.rooms)]), center(new_room),
                                     corner_first),
                      1, build)
  IN IF G.dungeon.panic THEN G
     ELSE IF has_intersection(G.rooms, new_room) THEN G
     ELSE IF tunnelled.panic THEN [G EXCEPT !.dungeon = tunnelled]
     ELSE [G EXCEPT !.dungeon = tunnelled, !.rooms = Append(@, new_room)]

\* a place_objects that queues a monster's first action at the clock of the
\* generation, without the delay
PlaceOneObject_NoDelay(G, object_weights, is_item, x, y, sample, now) ==
  LET tile == get_ref(G.dungeon, x, y)
      object == object_weights[sample][1]
      object_id == NextId(G.objects)
      placed == IF is_item THEN place_item(G.dungeon, object_id, x, y)
                ELSE place_blocker(G.dungeon, object_id, x, y)
  IN IF G.dungeon.panic THEN G
     ELSE IF is_item /\ tile.item # None THEN G
     ELSE IF ~is_item /\ tile.blocker # None THEN G
     ELSE [G EXCEPT !.objects = objects_add(@, object),
                    !.dungeon = placed,
                    !.action_queue =
                       IF object.has_ai /\ ~placed.panic
                         THEN @ \cup {[time |-> now, id |-> object_id]}
                         ELSE @]

\* one iteration of the loop of place_objects: the drawn cell (x, y) and the
\* sampled table index; now is app.time
PlaceOneObject(G, object_weights, is_item, x, y, sample, now) ==
  LET tile == get_ref(G.dungeon, x, y)
      object == object_weights[sample][1]
      object_id == NextId(G.objects)
      placed == IF is_item THEN place_item(G.dungeon, object_id, x, y)
                ELSE place_blocker(G.dungeon, object_id, x, y)
  IN IF G.dungeon.panic THEN G
     ELSE IF is_item /\ tile.item # None THEN G
     ELSE IF ~is_item /\ tile.blocker # None THEN G
     ELSE [G EXCEPT !.objects = objects_add(@, object),
                    !.dungeon = placed,
                    !.action_queue =
                       IF object.has_ai /\ ~placed.panic
                         THEN @ \cup {[time |-> now + FIRST_ACTION_DELAY, id |-> object_id]}
                         ELSE @]

\* place_objects for one room: draws is the list of (x, y, sample) the loop
\* draws, one per iteration (its length is the drawn number_of_items)
RECURSIVE place_objects(_, _, _, _, _, _)
place_objects(G, object_weights, is_item, draws, k, now) ==
  IF k > Len(draws) THEN G
  ELSE place_objects(PlaceOneObject(G, object_weights, is_item,
                                    draws[k][1], draws[k][2], draws[k][3], now),
                     object_weights, is_item, draws, k + 1, now)

\* the draws place_objects can make for a room: a number of items in
\* 0 ..= maximum_objects, then for each a cell of the room's inside and an
\* index WeightedIndex can sample
ObjectDraws(room, object_weights, maximum_objects) ==
  UNION {[1 .. n -> ((room.x1 + 1) .. (room.x2 - 1)) \X ((room.y1 + 1) .. (room.y2 - 1))
                      \X Samples(object_weights)] :
           n \in 0 .. maximum_objects}

\* the room the player is spawned in: rooms.first()
FirstRoom(rooms) == rooms[1]

\* the stairs spawned in the room of the player
LastRoom_First(rooms) == rooms[1]

\* the room the stairs are spawned in: rooms.last()
LastRoom(rooms) == rooms[Len(rooms)]

\* the end of generate_dungeon: the player is placed at the centre of the first
\* room, the stairs are created and placed at the centre of the last room.
\* rooms.first().unwrap() panics on an empty room list
FinishDungeon(G) ==
  LET player_pos == center(FirstRoom(G.rooms))
      with_player == place_blocker(G.dungeon, PLAYER, player_pos[1], player_pos[2])
      stairs_pos == center(LastRoom(G.rooms))
      stairs_id == NextId(G.objects)
  IN IF G.dungeon.panic THEN G
     ELSE IF G.rooms = <<>> THEN [G EXCEPT !.dungeon = Panicked(@)]
     ELSE IF with_player.panic THEN [G EXCEPT !.dungeon = with_player]
     ELSE [G EXCEPT !.objects = objects_add(@, stairs),
                    !.dungeon = place_item(with_player, stairs_id,
                                           stairs_pos[1], stairs_pos[2])]

\* generate_dungeon on a script of its random draws: script.rooms holds the
\* (room_width, room_height, x, y, corner) draws of the room loop, one per
\* iteration; script.objects holds, for each accepted room in order, the draws
\* of its two place_objects calls
RECURSIVE GenerateRooms(_, _, _, _)
GenerateRooms(G, draws, k, build) ==
  IF k > Len(draws) THEN G
  ELSE GenerateRooms(RoomAttempt(G, draws[k].room_width, draws[k].room_height,
                                 draws[k].x, draws[k].y, draws[k].corner_first, build),
                     draws, k + 1, build)

RECURSIVE GenerateObjects(_, _, _, _)
GenerateObjects(G, draws, k, now) ==
  IF k > Len(G.rooms) THEN G
  ELSE LET level == G.dungeon.level
           with_monsters == place_objects(G, monster_table(level), FALSE,
                                          draws[k].monsters, 1, now)
           with_items == place_objects(with_monsters, item_table(level), TRUE,
                                       draws[k].items, 1, now)
       IN GenerateObjects(with_items, draws, k + 1, now)

\* whether the draws of a script are draws generate_dungeon can make
ScriptDrawable(config, script) ==
  /\ Len(script.rooms) = config.max_rooms
  /\ \A k \in 1 .. Len(script.rooms) :
       LET d == script.rooms[k]
       IN /\ d.room_width \in config.room_min_width .. config.room_max_width
          /\ d.room_height \in config.room_min_height .. config.room_max_height
          /\ d.x \in 0 .. (config.width - d.room_width - 1)
          /\ d.y \in 0 .. (config.height - d.room_height - 1)
  /\ LET G == GenerateRooms([dungeon |-> NewGameMap(config.width, config.height, config.level),
                             rooms |-> <<>>, objects |-> EmptyMap, action_queue |-> {}],
                            script.rooms, 1, "debug")
     IN /\ Len(script.objects) = Len(G.rooms)
        /\ \A k \in 1 .. Len(G.rooms) :
             /\ script.objects[k].monsters \in
                  ObjectDraws(G.rooms[k], monster_table(config.level),
                              from_dungeon_level(MAX_MONSTERS_TABLE, config.level))
             /\ script.objects[k].items \in
                  ObjectDraws(G.rooms[k], item_table(config.level),
                              from_dungeon_level(MAX_ITEMS_TABLE, config.level))

\* App::generate_dungeon: the app with the generated dungeon as its gamemap.
\* A panic leaves the panicked dungeon in place of the gamemap
generate_dungeon(app, config, script) ==
  LET G0 == [dungeon |-> NewGameMap(config.width, config.height, config.level),
             rooms |-> <<>>, objects |-> app.objects,
             action_queue |-> app.action_queue]
      G1 == GenerateRooms(G0, script.rooms, 1, app.build)
      G2 == GenerateObjects(G1, script.objects, 1, app.time)
      G3 == FinishDungeon(G2)
  IN [app EXCEPT !.gamemap = G3.dungeon, !.objects = G3.objects,
                 !.action_queue = G3.action_queue]

(***************************************************************************)
(* engine.rs: combat, movement, the monsters' turns, field of view         *)
(***************************************************************************)

\* the radius of the player's field of view
VIEW_RADIUS == 8

\* the index of tile (x, y) for u16 coordinates, None where the access panics:
\* x + y * width is u16 arithmetic (the debug build panics past 2^16 - 1, the
\* release build wraps), and an index past the array panics
TileIndex(gm, x, y, build) ==
  LET raw == coords_to_idx(x, y, gm.width)
      idx == raw % U16
  IN IF raw >= U16 /\ build = "debug" THEN None
     ELSE IF idx \notin DOMAIN gm.tiles THEN None
     ELSE idx

AppPanic(app) == [app EXCEPT !.gamemap = Panicked(@)]

InputDirections ==
  {"Up", "Down", "Left", "Right", "UpLeft", "UpRight", "DownLeft", "DownRight"}

direction_to_deltas(direction) ==
  CASE direction = "Up" -> <<0, -1>>
    [] direction = "Down" -> <<0, 1>>
    [] direction = "Left" -> <<-1, 0>>
    [] direction = "Right" -> <<1, 0>>
    [] direction = "UpLeft" -> <<-1, -1>>
    [] direction = "UpRight" -> <<1, -1>>
    [] direction = "DownLeft" -> <<-1, 1>>
    [] direction = "DownRight" -> <<1, 1>>

\* power: base power plus the bonuses of the player's equipment; no handler of
\* the model equips anything, so every equipment slot is None and the bonus 0
power(app, id) ==
  IF ~app.objects[id].has_fighter THEN 0 ELSE app.objects[id].power + 0

\* defense: base defense plus the bonuses of the player's equipment
defense(app, id) ==
  IF ~app.objects[id].has_fighter THEN 0 ELSE app.objects[id].defense + 0

\* monster_death: the monster leaves its tile
monster_death(app, id) ==
  LET monster_pos == get_position(app.gamemap, id)
  IN IF monster_pos = NonePos THEN AppPanic(app)
     ELSE [app EXCEPT !.gamemap = remove_blocker(@, monster_pos[1], monster_pos[2])]

\* player_death: only the player's glyph and the log change
player_death(app) == app

\* take_damage: hp is a u16, the subtraction saturates at 0
take_damage(app, id, damage) ==
  LET obj == app.objects[id]
      hp == IF damage > 0 THEN Max(obj.hp - damage, 0) ELSE obj.hp
      dies == hp <= 0
      hurt == [obj EXCEPT !.hp = Min(hp, obj.max_hp),
                          !.alive = IF dies THEN FALSE ELSE @]
      after == [app EXCEPT !.objects[id] = hurt]
  IN IF ~obj.has_fighter THEN app
     ELSE IF ~dies THEN after
     ELSE IF obj.death_callback = "Player" THEN player_death(after)
     ELSE monster_death(after, id)

\* get_blocking_object_id(x, y) where the tile access does not panic
get_blocking_object_id(app, x, y) == get_ref(app.gamemap, x, y).blocker

\* a move that places the object on the target and leaves it on its old tile
move_action_Copies(app, id, target) ==
  IF app.gamemap.panic THEN app
  ELSE IF ~is_walkable(get_ref(app.gamemap, target[1], target[2])) THEN app
  ELSE IF get_blocking_object_id(app, target[1], target[2]) # None THEN app
  ELSE [app EXCEPT !.gamemap = place_blocker(@, id, target[1], target[2])]

\* move_action: move an object to target
move_action(app, id, target) ==
  LET pos == get_position(app.gamemap, id)
      removed == remove_blocker(app.gamemap, pos[1], pos[2])
      obj == RemovedBlocker(app.gamemap, pos[1], pos[2])
      placed == place_blocker(removed, obj, target[1], target[2])
  IN IF app.gamemap.panic THEN app
     ELSE IF ~is_walkable(get_ref(app.gamemap, target[1], target[2])) THEN app
     ELSE IF get_blocking_object_id(app, target[1], target[2]) # None THEN app
     ELSE IF pos = NonePos THEN AppPanic(app)
     ELSE IF obj # id THEN [app EXCEPT !.gamemap = Panicked(placed)]
     ELSE [app EXCEPT !.gamemap = placed]

\* the damage of a melee attack
MeleeDamage(attacker_power, target_defense) == Max(attacker_power - target_defense, 0)

\* melee_action: the attacker hits whatever blocks the target tile
melee_action(app, attacker_id, target) ==
  LET idx == TileIndex(app.gamemap, target[1], target[2], app.build)
      target_id == app.gamemap.tiles[idx].blocker
      damage == MeleeDamage(power(app, attacker_id), defense(app, target_id))
  IN IF app.gamemap.panic THEN app
     ELSE IF idx = None THEN AppPanic(app)
     ELSE IF target_id = None THEN app
     ELSE IF attacker_id = target_id
             \/ attacker_id \notin DOMAIN app.objects
             \/ target_id \notin DOMAIN app.objects THEN AppPanic(app)
     ELSE IF damage > 0 THEN take_damage(app, target_id, damage)
     ELSE app

\* a bump that never attacks: it only tries to move
bump_action_MovesOnly(app, id, direction) ==
  LET pos == get_position(app.gamemap, id)
      deltas == direction_to_deltas(direction)
      target == <<pos[1] + deltas[1], pos[2] + deltas[2]>>
  IN IF app.gamemap.panic THEN app
     ELSE IF pos = NonePos THEN AppPanic(app)
     ELSE IF ~in_bounds(app.gamemap, target[1], target[2]) THEN app
     ELSE move_action(app, id, target)

\* bump_action: attack the blocker in the direction, or move there
bump_action(app, id, direction) ==
  LET pos == get_position(app.gamemap, id)
      deltas == direction_to_deltas(direction)
      target == <<pos[1] + deltas[1], pos[2] + deltas[2]>>
  IN IF app.gamemap.panic THEN app
     ELSE IF pos = NonePos THEN AppPanic(app)
     ELSE IF ~in_bounds(app.gamemap, target[1], target[2]) THEN app
     ELSE IF get_blocking_object_id(app, target[1], target[2]) # None
       THEN melee_action(app, id, target)
     ELSE move_action(app, id, target)

\* the ends of the i16 range
I16MIN == -32768

I16MAX == 32767

\* i16::saturating_sub
saturating_sub(a, b) == Max(Min(a - b, I16MAX), I16MIN)

\* the division of i16 values, which truncates towards zero
TruncDiv(a, b) == IF a >= 0 THEN a \div b ELSE -((-a) \div b)

\* the range (defense / 2)..=defense the mitigated damage is drawn from;
\* random_range panics on an empty range
MitigationRange(defense_value) == TruncDiv(defense_value, 2) .. defense_value

\* an attack whose result is not floored at 0
damage_NotFloored(power_value, mitigated_damage) ==
  saturating_sub(power_value, mitigated_damage)

\* damage, for the mitigated damage the rng drew
damage(power_value, mitigated_damage) ==
  Max(saturating_sub(power_value, mitigated_damage), 0)

LIGHTNING_DAMAGE == 8

\* cast_lightning at a tile of the grid, for the mitigated damage the rng
\* draws: the blocker of the tile, unless it is the player, takes the damage
cast_lightning(app, target, mitigated_damage) ==
  LET target_id == get_blocking_object_id(app, target[1], target[2])
      damage_dealt == damage(LIGHTNING_DAMAGE, mitigated_damage)
  IN IF app.gamemap.panic THEN app
     ELSE IF target_id = PLAYER \/ target_id = None THEN app
     ELSE IF ~app.objects[target_id].has_fighter THEN AppPanic(app)
     ELSE IF damage_dealt > 0 THEN take_damage(app, target_id, damage_dealt)
     ELSE app

\* the cost array handle_melee_ai hands to the pathfinder
AiCosts(gm) ==
  [i \in DOMAIN gm.tiles |-> IF is_walkable(gm.tiles[i]) THEN 1 ELSE 0]

\* the fallback duration of a turn whose path is empty
EMPTY_PATH_TIME == 100

\* a melee ai that forgets only after more than MELEE_FORGET_TIME
Forgets_Strict(seen_time, now) == seen_time + MELEE_FORGET_TIME < now

\* whether the melee ai forgets its target: it was last seen at seen_time
Forgets(seen_time, now) == seen_time + MELEE_FORGET_TIME <= now

\* a monster that steps straight onto the last tile of its path
NextStep_Last(path) == path[Len(path)]

\* *path.first().unwrap(): the next tile to step into
NextStep(path) == path[1]

\* handle_melee_ai: the monster's turn; the app after it and the time it took
handle_melee_ai(app, id) ==
  LET monster == app.objects[id]
      monster_pos == get_position(app.gamemap, id)
      sees == is_visible(app.gamemap, monster_pos[1], monster_pos[2])
      seen_time == IF sees THEN app.time ELSE monster.last_seen_time
      target == IF seen_time # None /\ Forgets(seen_time, app.time) THEN None
                ELSE IF sees THEN PLAYER
                ELSE monster.target
      remembered == [app EXCEPT !.objects[id].target = target,
                                !.objects[id].last_seen_time = seen_time]
      attack_time == monster.attack_speed
      move_time == monster.move_speed
      pathfinder == Pathfinder_new(AiCosts(app.gamemap), monster_pos,
                                   app.gamemap.width, app.gamemap.height, 2, 3)
      target_pos == get_position(app.gamemap, target)
      path == path_to(pathfinder, target_pos)
  IN IF app.gamemap.panic THEN [app |-> app, time_taken |-> 0]
     ELSE IF id \notin DOMAIN app.objects \/ ~monster.has_ai \/ monster_pos = NonePos
       THEN [app |-> AppPanic(app), time_taken |-> 0]
     ELSE IF target = None THEN [app |-> remembered, time_taken |-> move_time]
     ELSE IF target_pos = NonePos THEN [app |-> AppPanic(remembered), time_taken |-> 0]
     ELSE IF Len(path) = 0 THEN [app |-> remembered, time_taken |-> EMPTY_PATH_TIME]
     ELSE IF Len(path) = 1
       THEN [app |-> melee_action(remembered, id, NextStep(path)), time_taken |-> attack_time]
     ELSE [app |-> move_action(remembered, id, NextStep(path)), time_taken |-> move_time]

\* an entry pushed back at the clock's time plus the time the turn took
Reinserted_FromNow(action, time_taken, now) ==
  [time |-> now + time_taken, id |-> action.id]

\* the entry perform_action pushes back: the popped entry's time plus the
\* time the turn took
Reinserted(action, time_taken, now) ==
  [time |-> action.time + time_taken, id |-> action.id]

\* a perform_action that does not look at the alive flag
Acts_DeadOrAlive(app, action) ==
  /\ action.id \in DOMAIN app.objects
  /\ app.objects[action.id].has_ai

\* whether perform_action lets the popped entry's actor take a turn
Acts(app, action) ==
  /\ action.id \in DOMAIN app.objects
  /\ app.objects[action.id].alive
  /\ app.objects[action.id].has_ai

\* perform_action on an entry already popped from the queue: the app after
\* it, whether the actor took a turn, and the time the turn took
perform_action(app, action) ==
  LET turn == handle_melee_ai(app, action.id)
  IN IF ~Acts(app, action) THEN [app |-> app, acted |-> FALSE, time_taken |-> 0]
     ELSE IF turn.app.gamemap.panic
       THEN [app |-> turn.app, acted |-> TRUE, time_taken |-> turn.time_taken]
     ELSE [app |-> [turn.app EXCEPT !.action_queue =
                      @ \cup {Reinserted(action, turn.time_taken, app.time)}],
           acted |-> TRUE, time_taken |-> turn.time_taken]

\* the entry the queue hands out first: the earliest time, the smaller id
\* among entries of the same time
Top(queue) ==
  CHOOSE a \in queue :
    \A b \in queue : a.time < b.time \/ (a.time = b.time /\ a.id <= b.id)

\* a loop that already returns on an entry scheduled at the clock's time
NotYetDue_AtNow(action, now) == action.time >= now

\* whether handle_monster_turns returns on peeking this entry
NotYetDue(action, now) == action.time > now

\* whether the loop of handle_monster_turns goes on: there is a top entry and
\* the loop does not return on it
Continues(queue, now) == queue # {} /\ ~NotYetDue(Top(queue), now)

\* the cells a cast of update_fov marks visible, in order: every cell of the
\* path up to and including the first one that is not transparent.  panic is
\* set when a tile access of the walk panics
RECURSIVE FovCast(_, _, _, _)
FovCast(gm, path, k, build) ==
  IF k > Len(path) THEN [cells |-> {}, panic |-> FALSE]
  ELSE LET idx == TileIndex(gm, path[k][1], path[k][2], build)
           rest == FovCast(gm, path, k + 1, build)
       IN IF idx = None THEN [cells |-> {}, panic |-> TRUE]
          ELSE IF ~is_transparent(gm.tiles[idx]) THEN [cells |-> {idx}, panic |-> FALSE]
          ELSE [cells |-> {idx} \cup rest.cells, panic |-> rest.panic]

\* an update_fov whose box starts at player - radius in wrapping u16
\* arithmetic: a radius that reaches past the left or upper edge empties it
update_fov_WrapsLow(app, radius) ==
  LET gm == app.gamemap
      position == get_position(gm, PLAYER)
      player_x == position[1]
      player_y == position[2]
      xlow == AsU16(player_x - radius)
      xhigh == Min(player_x + radius, gm.width - 1)
      ylow == AsU16(player_y - radius)
      yhigh == Min(player_y + radius, gm.height - 1)
      casts == {FovCast(gm, CastPath(bresenham(position, <<target_x, target_y>>)),
                        1, app.build) :
                  target_x \in xlow .. xhigh, target_y \in ylow .. yhigh}
      seen == UNION {c.cells : c \in casts}
  IN IF gm.panic THEN app
     ELSE IF position = NonePos THEN AppPanic(app)
     ELSE IF \E c \in casts : c.panic THEN AppPanic(app)
     ELSE [app EXCEPT !.gamemap.visible = [i \in DOMAIN @ |-> i \in seen],
                      !.gamemap.explored = [i \in DOMAIN @ |-> @[i] \/ i \in seen]]

\* an update_fov that overwrites explored with visible instead of adding to it
update_fov_Forgets(app, radius) ==
  LET gm == app.gamemap
      position == get_position(gm, PLAYER)
      player_x == position[1]
      player_y == position[2]
      xlow == Max(player_x - radius, 0)
      xhigh == Min(player_x + radius, gm.width - 1)
      ylow == Max(player_y - radius, 0)
      yhigh == Min(player_y + radius, gm.height - 1)
      casts == {FovCast(gm, CastPath(bresenham(position, <<target_x, target_y>>)),
                        1, app.build) :
                  target_x \in xlow .. xhigh, target_y \in ylow .. yhigh}
      seen == UNION {c.cells : c \in casts}
  IN IF gm.panic THEN app
     ELSE IF position = NonePos THEN AppPanic(app)
     ELSE IF \E c \in casts : c.panic THEN AppPanic(app)
     ELSE [app EXCEPT !.gamemap.visible = [i \in DOMAIN @ |-> i \in seen],
                      !.gamemap.explored = [i \in DOMAIN @ |-> i \in seen]]

\* update_fov: visible is recomputed from the player's position and explored
\* grows by it (the last-seen renderables are not part of the state)
update_fov(app, radius) ==
  LET gm == app.gamemap
      position == get_position(gm, PLAYER)
      player_x == position[1]
      player_y == position[2]
      xlow == Max(player_x - radius, 0)
      xhigh == Min(player_x + radius, gm.width - 1)
      ylow == Max(player_y - radius, 0)
      yhigh == Min(player_y + radius, gm.height - 1)
      casts == {FovCast(gm, CastPath(bresenham(position, <<target_x, target_y>>)),
                        1, app.build) :
                  target_x \in xlow .. xhigh, target_y \in ylow .. yhigh}
      seen == UNION {c.cells : c \in casts}
  IN IF gm.panic THEN app
     ELSE IF position = NonePos THEN AppPanic(app)
     ELSE IF \E c \in casts : c.panic THEN AppPanic(app)
     ELSE [app EXCEPT !.gamemap.visible = [i \in DOMAIN @ |-> i \in seen],
                      !.gamemap.explored = [i \in DOMAIN @ |-> @[i] \/ i \in seen]]

\* how much max_hp the player gains on a new floor
STAIRS_HP_BONUS == 5

\* a check that takes any item under the player for the stairs
on_stairs_AnyItem(app) ==
  LET player_pos == get_position(app.gamemap, PLAYER)
  IN get_ref(app.gamemap, player_pos[1], player_pos[2]).item # None

\* whether the player stands on the stairs
on_stairs(app) ==
  LET player_pos == get_position(app.gamemap, PLAYER)
      item == get_ref(app.gamemap, player_pos[1], player_pos[2]).item
  IN item # None /\ app.objects[item].name = "Stairs"

\* a descent that keeps the action queue of the floor it leaves
go_down_stairs_KeepsQueue(app, config, script) ==
  LET generated == generate_dungeon(app, [config EXCEPT !.level = app.gamemap.level + 1],
                                    script)
      lit == update_fov(generated, VIEW_RADIUS)
  IN IF lit.gamemap.panic THEN lit
     ELSE [lit EXCEPT !.objects[PLAYER].max_hp = @ + STAIRS_HP_BONUS,
                      !.objects[PLAYER].hp = lit.objects[PLAYER].max_hp + STAIRS_HP_BONUS]

\* go_down_stairs where the player stands on the stairs: the queue is
\* cleared, the next level is generated on the script's draws, the player's
\* max_hp grows and the hp is restored
go_down_stairs(app, config, script) ==
  LET cleared == [app EXCEPT !.action_queue = {}]
      generated == generate_dungeon(cleared, [config EXCEPT !.level = app.gamemap.level + 1],
                                    script)
      lit == update_fov(generated, VIEW_RADIUS)
  IN IF lit.gamemap.panic THEN lit
     ELSE [lit EXCEPT !.objects[PLAYER].max_hp = @ + STAIRS_HP_BONUS,
                      !.objects[PLAYER].hp = lit.objects[PLAYER].max_hp + STAIRS_HP_BONUS]

\* new_game: the first dungeon and the first field of view
new_game(app, config, script) == update_fov(generate_dungeon(app, config, script), VIEW_RADIUS)

(***************************************************************************)
(* Values of the variables a specification does not use                    *)
(***************************************************************************)

NoMap == NewGameMap(0, 0, 0)

NoGen == [phase |-> "none"]

NoPathfinder == [root |-> None]

NoCall == [op |-> "none"]

(***************************************************************************)
(* SpecPath: a Pathfinder is constructed on some cost array and queried    *)
(***************************************************************************)

\* the grid of the pathfinder's inputs
PathShape == [width |-> 3, height |-> 2]

PathCells == (0 .. (PathShape.width - 1)) \X (0 .. (PathShape.height - 1))

\* the cost values of the inputs: impassable, free floor, occupied floor
CostValues == {0, 1, 5}

\* the (cardinal, diagonal) step costs of the inputs; (2, 3) is the caller's
StepCostPairs == {<<2, 3>>, <<0, 0>>}

InitPath ==
  /\ pc = "path_new"
  /\ pf \in [costs : [0 .. (PathShape.width * PathShape.height - 1) -> CostValues],
             root : PathCells,
             steps : StepCostPairs]
  /\ last = NoCall
  /\ gamemap = NoMap /\ objects = EmptyMap /\ action_queue = {} /\ time = 0
  /\ gen = NoGen

\* Pathfinder::new(costs, root, width, height, cardinal, diagonal)
PathConstruct ==
  /\ pc = "path_new"
  /\ pf' = Pathfinder_new(pf.costs, pf.root, PathShape.width, PathShape.height,
                          pf.steps[1], pf.steps[2])
  /\ pc' = "path_ready"
  /\ UNCHANGED <<gamemap, objects, action_queue, time, gen, last>>

\* pathfinder.path_to(dest)
PathTo ==
  /\ pc = "path_ready"
  /\ \E dest \in PathCells :
       last' = [op |-> "path_to", dest |-> dest, ret |-> path_to(pf, dest)]
  /\ UNCHANGED <<gamemap, objects, action_queue, time, gen, pf, pc>>

NextPath == PathConstruct \/ PathTo

SpecPath == InitPath /\ [][NextPath]_vars

IdxOf(p, c) == coords_to_idx(c[1], c[2], p.width)

\* the 8 neighbours of a cell that lie on the pathfinder's grid
Neighbours8(p, c) ==
  {d \in (0 .. (p.width - 1)) \X (0 .. (p.height - 1)) :
     d # c /\ Abs(d[1] - c[1]) <= 1 /\ Abs(d[2] - c[2]) <= 1}

\* the cells some 8-connected walk from root reaches entering only cells of
\* positive cost (root itself included, whatever its cost)
RECURSIVE ReachFrom(_, _)
ReachFrom(p, seen) ==
  LET more == {d \in UNION {Neighbours8(p, c) : c \in seen} : p.costs[IdxOf(p, d)] > 0}
  IN IF more \subseteq seen THEN seen ELSE ReachFrom(p, seen \cup more)

\* the cells of the claim: those no walk reaches, and those of cost 0
CannotBeReached(p) ==
  LET reach == ReachFrom(p, {p.root})
  IN {c \in (0 .. (p.width - 1)) \X (0 .. (p.height - 1)) :
        p.costs[IdxOf(p, c)] = 0 \/ c \notin reach}

\* C9: after construction the distance stored for the root cell is 0
C9_RootDistanceZero ==
  pc = "path_ready" => pf.dists[IdxOf(pf, pf.root)] = 0

\* C10: a cell that cannot be reached from the root through cells of positive
\* cost (or that has cost 0) has distance u32::MAX, and path_to returns the
\* sentinel path [(490, 490)] for it
C10_UnreachableIsSentinel ==
  pc = "path_ready" =>
    \A c \in CannotBeReached(pf) :
        /\ pf.dists[IdxOf(pf, c)] = U32MAX
        /\ path_to(pf, c) = SentinelPath
        /\ (last.op = "path_to" /\ last.dest = c => last.ret = SentinelPath)

\* a cell of positive cost walled off from the root has been queried
C10_Witness ==
  /\ pc = "path_ready"
  /\ last.op = "path_to"
  /\ last.dest # pf.root
  /\ pf.costs[IdxOf(pf, last.dest)] > 0
  /\ pf.costs[IdxOf(pf, pf.root)] > 0
  /\ \E d \in Neighbours8(pf, pf.root) : pf.costs[IdxOf(pf, d)] > 0
  /\ last.dest \in CannotBeReached(pf)
  /\ last.ret = SentinelPath

\* the cells of the grid other than root that a walk from root reaches
ReachableDests(p) ==
  {c \in (0 .. (p.width - 1)) \X (0 .. (p.height - 1)) :
     c # p.root /\ c \notin CannotBeReached(p)}

\* a path from next to root up to dest, root excluded
IsPathFromRoot(p, path, dest) ==
  /\ Len(path) > 0
  /\ \A i \in 1 .. Len(path) : path[i] # p.root
  /\ path[1] \in Neighbours8(p, p.root)
  /\ path[Len(path)] = dest
  /\ \A i \in 1 .. (Len(path) - 1) : path[i + 1] \in Neighbours8(p, path[i])
  /\ \A i \in 1 .. Len(path) :
       /\ path[i] \in (0 .. (p.width - 1)) \X (0 .. (p.height - 1))
       /\ p.costs[IdxOf(p, path[i])] > 0

\* C11: for every reachable dest other than root, path_to(dest) returns a
\* non-empty path without root, starting at one of root's 8 neighbours,
\* ending at dest, with 8-adjacent consecutive cells, all of positive cost
C11_PathFromNeighbourToDest ==
  pc = "path_ready" =>
    /\ \A c \in ReachableDests(pf) : IsPathFromRoot(pf, path_to(pf, c), c)
    /\ (last.op = "path_to" /\ last.dest \in ReachableDests(pf)
          => IsPathFromRoot(pf, last.ret, last.dest))

\* a reachable cell two or more steps from root has been queried
C11_Witness ==
  /\ pc = "path_ready"
  /\ last.op = "path_to"
  /\ last.dest \in ReachableDests(pf)
  /\ Len(last.ret) >= 2
  /\ last.ret[Len(last.ret)] = last.dest

\* the caller's convention: cell costs 0, 1 or 5 and step costs 2 and 3
CallersConvention(p) == p.cardinal = 2 /\ p.diagonal = 3

\* a fully open grid of uniform cost 1
UniformOpen(p) == \A i \in DOMAIN p.costs : p.costs[i] = 1

\* C12: under the caller's convention the path to a reachable dest has
\* length exactly 1 if and only if dest is one of root's 8 neighbours; on a
\* fully open grid of cost 1 the path to (root.x + 1, root.y) has length 1
C12_LengthOneIffNeighbour ==
  pc = "path_ready" /\ CallersConvention(pf) =>
    /\ \A c \in ReachableDests(pf) :
         Len(path_to(pf, c)) = 1 <=> c \in Neighbours8(pf, pf.root)
    /\ (last.op = "path_to" /\ last.dest \in ReachableDests(pf)
          => (Len(last.ret) = 1 <=> last.dest \in Neighbours8(pf, pf.root)))
    /\ (UniformOpen(pf) /\ pf.root[1] + 1 < pf.width
          => Len(path_to(pf, <<pf.root[1] + 1, pf.root[2]>>)) = 1)

\* the path to an occupied diagonal neighbour that a cheaper-looking detour
\* over free cells also reaches has been queried and has length 1
C12_Witness ==
  /\ pc = "path_ready"
  /\ CallersConvention(pf)
  /\ last.op = "path_to"
  /\ last.dest \in ReachableDests(pf)
  /\ Abs(last.dest[1] - pf.root[1]) = 1 /\ Abs(last.dest[2] - pf.root[2]) = 1
  /\ pf.costs[IdxOf(pf, last.dest)] = 5
  /\ pf.costs[IdxOf(pf, <<last.dest[1], pf.root[2]>>)] = 1
  /\ Len(last.ret) = 1

\* the weight of the move from cell u into its neighbour c: the cost of the
\* cell entered plus the step cost, cardinal or diagonal
MoveWeight(p, u, c) ==
  p.costs[IdxOf(p, c)] + (IF u[1] = c[1] \/ u[2] = c[2] THEN p.cardinal ELSE p.diagonal)

\* the least element of a non-empty set of numbers
Least(S) == CHOOSE a \in S : \A b \in S : a <= b

\* one round over the cells from index i on: each cell takes the least of
\* its weight so far and the weights over its neighbours; d and acc are
\* sequences, the weight of the cell of index i at position i + 1
RECURSIVE LeastRound(_, _, _, _)
LeastRound(p, d, i, acc) ==
  IF i = Len(d) THEN acc
  ELSE LET c == idx_to_coords(i, p.width)
           via == {d[IdxOf(p, u) + 1] + MoveWeight(p, u, c) :
                     u \in {u \in Neighbours8(p, c) : d[IdxOf(p, u) + 1] # U32MAX}}
       IN LeastRound(p, d, i + 1,
                     Append(acc, IF p.costs[i] = 0 \/ via = {} THEN d[i + 1]
                                 ELSE Least(via \cup {d[i + 1]})))

\* the least weights of the walks of at most n more moves: d holds the least
\* weights found so far, u32::MAX where there is no walk
RECURSIVE LeastWeights(_, _, _)
LeastWeights(p, d, n) ==
  IF n = 0 THEN d ELSE LeastWeights(p, LeastRound(p, d, 0, <<>>), n - 1)

\* for every cell the minimum over the walks from root that enter only cells
\* of positive cost of their total weight (0 for root itself), the weight of
\* the cell of index i at position i + 1
MinWeights(p) ==
  LeastWeights(p, [k \in 1 .. Cardinality(DOMAIN p.costs) |->
                     IF k = IdxOf(p, p.root) + 1 THEN 0 ELSE U32MAX],
               Cardinality(DOMAIN p.costs))

\* the total weight of a path that starts next to root
RECURSIVE PathWeight(_, _, _)
PathWeight(p, path, k) ==
  IF k > Len(path) THEN 0
  ELSE MoveWeight(p, IF k = 1 THEN p.root ELSE path[k - 1], path[k])
         + PathWeight(p, path, k + 1)

\* C27: after construction, for every cell v other than root the stored
\* distance is the minimum over all 8-connected paths from root to v that
\* enter only cells of positive cost of the sum of (cost of the cell entered
\* + step cost of the move), or u32::MAX when there is no such path; and the
\* path returned by path_to(v) has exactly that total weight
C27_DistancesAreMinimal ==
  pc = "path_ready" =>
    LET least == MinWeights(pf)
    IN /\ \A c \in PathCells \ {pf.root} :
            /\ pf.dists[IdxOf(pf, c)] = least[IdxOf(pf, c) + 1]
            /\ least[IdxOf(pf, c) + 1] # U32MAX
                 => PathWeight(pf, path_to(pf, c), 1) = least[IdxOf(pf, c) + 1]
       /\ (last.op = "path_to" /\ last.dest # pf.root
              /\ least[IdxOf(pf, last.dest) + 1] # U32MAX
            => PathWeight(pf, last.ret, 1) = least[IdxOf(pf, last.dest) + 1])

\* the path to a cell two columns from root in root's row has been queried:
\* the cell between them is occupied (cost 5) and the path goes around it
\* through the other row, at the weight dijkstra stored
C27_Witness ==
  /\ pc = "path_ready"
  /\ CallersConvention(pf)
  /\ last.op = "path_to"
  /\ last.dest[2] = pf.root[2] /\ Abs(last.dest[1] - pf.root[1]) = 2
  /\ pf.costs[IdxOf(pf, <<(last.dest[1] + pf.root[1]) \div 2, pf.root[2]>>)] = 5
  /\ Len(last.ret) = 2
  /\ last.ret[1][2] # pf.root[2]
  /\ PathWeight(pf, last.ret, 1) = pf.dists[IdxOf(pf, last.dest)]
  /\ PathWeight(pf, last.ret, 1) = 8

(***************************************************************************)
(* SpecGen: generate_dungeon of a new game, one loop iteration at a time,  *)
(* on every outcome of its random draws.  A panic ends the process.        *)
(***************************************************************************)

\* the DungeonConfig the dungeon is generated from
GenConfig ==
  [max_rooms |-> 2,
   room_min_width |-> 2, room_max_width |-> 3,
   room_min_height |-> 2, room_max_height |-> 2,
   width |-> 6, height |-> 5, level |-> 1]

\* debug builds check u16 arithmetic for overflow, release builds wrap
Builds == {"debug", "release"}

\* the locals of generate_dungeon together with the fields of the app it writes
GenState ==
  [dungeon |-> gen.dungeon, rooms |-> gen.rooms,
   objects |-> objects, action_queue |-> action_queue]

\* where generate_dungeon continues after its room loop made `attempts` iterations
AfterRoom(G, attempts) ==
  IF G.dungeon.panic THEN "panic"
  ELSE IF attempts < GenConfig.max_rooms THEN "gen_rooms"
  ELSE IF G.rooms = <<>> THEN "gen_finish"
  ELSE "gen_objects"

InitGen ==
  /\ pc = "gen_rooms"
  /\ \E build \in Builds :
       gen = [build |-> build,
              dungeon |-> NewGameMap(GenConfig.width, GenConfig.height, GenConfig.level),
              rooms |-> <<>>, attempts |-> 0, room |-> 1, is_item |-> FALSE]
  /\ gamemap = NoMap
  /\ objects = objects_add(EmptyMap, player)
  /\ action_queue = {}
  /\ time = 0
  /\ pf = NoPathfinder
  /\ last = [op |-> "none", n |-> 0]

\* one iteration of `for _ in 0..config.max_rooms`
GenRoom ==
  /\ pc = "gen_rooms"
  /\ \E room_width \in GenConfig.room_min_width .. GenConfig.room_max_width,
        room_height \in GenConfig.room_min_height .. GenConfig.room_max_height :
       \E x \in 0 .. (GenConfig.width - room_width - 1),
          y \in 0 .. (GenConfig.height - room_height - 1),
          corner_first \in BOOLEAN :
         LET G == RoomAttempt(GenState, room_width, room_height, x, y,
                              corner_first, gen.build)
         IN /\ gen' = [gen EXCEPT !.dungeon = G.dungeon, !.rooms = G.rooms,
                                  !.attempts = @ + 1]
            /\ pc' = AfterRoom(G, gen.attempts + 1)
            /\ last' = [op |-> "room", n |-> gen.attempts + 1,
                        room |-> RectangularRoom(x, y, room_width, room_height)]
  /\ UNCHANGED <<gamemap, objects, action_queue, time, pf>>

\* one call of place_objects in `for room in &rooms`: the monsters of the
\* room, then its items
GenObjects ==
  /\ pc = "gen_objects"
  /\ LET room == gen.rooms[gen.room]
         level == gen.dungeon.level
         object_weights == IF gen.is_item THEN item_table(level) ELSE monster_table(level)
         maximum_objects == IF gen.is_item THEN from_dungeon_level(MAX_ITEMS_TABLE, level)
                            ELSE from_dungeon_level(MAX_MONSTERS_TABLE, level)
     IN \E draws \in ObjectDraws(room, object_weights, maximum_objects) :
          LET G == place_objects(GenState, object_weights, gen.is_item, draws, 1, time)
              next_room == IF gen.is_item THEN gen.room + 1 ELSE gen.room
          IN /\ gen' = [gen EXCEPT !.dungeon = G.dungeon, !.is_item = ~@,
                                   !.room = next_room]
             /\ objects' = G.objects
             /\ action_queue' = G.action_queue
             /\ pc' = IF G.dungeon.panic THEN "panic"
                      ELSE IF next_room > Len(gen.rooms) THEN "gen_finish"
                      ELSE "gen_objects"
             /\ last' = [op |-> "place_objects", n |-> Len(draws)]
  /\ UNCHANGED <<gamemap, time, pf>>

\* the player and the stairs are placed and the dungeon becomes the app's gamemap
GenFinish ==
  /\ pc = "gen_finish"
  /\ LET G == FinishDungeon(GenState)
     IN /\ gen' = [gen EXCEPT !.dungeon = G.dungeon]
        /\ objects' = G.objects
        /\ gamemap' = IF G.dungeon.panic THEN gamemap ELSE G.dungeon
        /\ pc' = IF G.dungeon.panic THEN "panic" ELSE "done"
        /\ last' = [op |-> "finish", n |-> 0]
  /\ UNCHANGED <<action_queue, time, pf>>

NextGen == GenRoom \/ GenObjects \/ GenFinish

SpecGen == InitGen /\ [][NextGen]_vars

\* the id of the stairs object
StairsId == CHOOSE id \in DOMAIN objects : objects[id].name = "Stairs"

\* the cells of the closed bounding rectangle [x1, x2] x [y1, y2] of a room
Rectangle(room) == (room.x1 .. room.x2) \X (room.y1 .. room.y2)

\* the in-bounds walkable cells next to a cell, diagonals included
FloorNeighbours(gm, c) ==
  {d \in Cells(gm) : /\ d # c
                     /\ Abs(d[1] - c[1]) <= 1 /\ Abs(d[2] - c[2]) <= 1
                     /\ is_walkable(get_ref(gm, d[1], d[2]))}

\* the cells joined to the cells of `seen` by a chain of adjacent walkable cells
RECURSIVE FloorRegion(_, _)
FloorRegion(gm, seen) ==
  LET more == UNION {FloorNeighbours(gm, c) : c \in seen} \ seen
  IN IF more = {} THEN seen ELSE FloorRegion(gm, seen \cup more)

\* C5: generate_dungeon runs to completion without a fatal placement error,
\* accepts at least one room, and leaves the player as the blocker on the
\* centre of the first accepted room and the stairs as the item on the centre
\* of the last accepted room, both centres inside their room, whatever
\* monsters and items were spawned
C5_GenerationCompletes ==
  /\ pc # "panic"
  /\ pc = "done" =>
       /\ Len(gen.rooms) >= 1
       /\ LET p == center(gen.rooms[1])
              q == center(gen.rooms[Len(gen.rooms)])
          IN /\ p \in inner(gen.rooms[1])
             /\ q \in inner(gen.rooms[Len(gen.rooms)])
             /\ get_ref(gamemap, p[1], p[2]).blocker = PLAYER
             /\ get_ref(gamemap, q[1], q[2]).item = StairsId

\* C6: after generation the stairs tile is reachable from the player's tile
\* over walkable tiles: the centre of every accepted room is joined to the
\* centre of the room accepted before it by a chain of adjacent Floor tiles
C6_RoomsConnected ==
  pc = "done" =>
    /\ get_position(gamemap, StairsId)
         \in FloorRegion(gamemap, {get_position(gamemap, PLAYER)})
    /\ \A i \in 2 .. Len(gen.rooms) :
         center(gen.rooms[i]) \in FloorRegion(gamemap, {center(gen.rooms[i - 1])})

\* the player's tile and the stairs' tile are in bounds and walkable
C7_BothOnFloor ==
  LET p == get_position(gamemap, PLAYER)
      q == get_position(gamemap, StairsId)
  IN /\ p \in Cells(gamemap) /\ q \in Cells(gamemap)
     /\ is_walkable(get_ref(gamemap, p[1], p[2]))
     /\ is_walkable(get_ref(gamemap, q[1], q[2]))
     /\ get_ref(gamemap, p[1], p[2]).blocker = PLAYER
     /\ get_ref(gamemap, q[1], q[2]).item = StairsId

\* C7 as stated: after generation the player's tile and the stairs' tile are
\* both in bounds, both walkable Floor tiles, and two different cells
C7_StartAndStairsDistinct ==
  pc = "done" =>
    /\ C7_BothOnFloor
    /\ get_position(gamemap, PLAYER) # get_position(gamemap, StairsId)

\* C7 amended: after generation the player's tile and the stairs' tile are
\* both in bounds and both walkable Floor tiles; they are two different cells
\* exactly when more than one room was accepted, and the same cell when the
\* first room is the only one
C7_StartAndStairs ==
  pc = "done" =>
    /\ C7_BothOnFloor
    /\ (get_position(gamemap, PLAYER) # get_position(gamemap, StairsId))
         <=> (Len(gen.rooms) >= 2)

\* generation finished with two rooms, the stairs away from the player
C7_Witness ==
  /\ pc = "done" /\ Len(gen.rooms) = 2
  /\ get_position(gamemap, PLAYER) = center(gen.rooms[1])
  /\ get_position(gamemap, StairsId) = center(gen.rooms[2])

\* the rooms accepted so far are pairwise apart: their closed bounding
\* rectangles share no cell
C8_RoomsApart ==
  \A i, j \in 1 .. Len(gen.rooms) :
    i # j => Rectangle(gen.rooms[i]) \cap Rectangle(gen.rooms[j]) = {}

\* a candidate room that shares a cell of its bounding rectangle with an
\* accepted room is rejected: no room is added and no tile changes
C8_RejectedCarvesNothing ==
  (/\ last'.op = "room" /\ last'.n = last.n + 1
   /\ \E i \in 1 .. Len(gen.rooms) :
        Rectangle(gen.rooms[i]) \cap Rectangle(last'.room) # {})
    => gen'.rooms = gen.rooms /\ gen'.dungeon = gen.dungeon

\* C8: no two accepted rooms' bounding rectangles [x1,x2] x [y1,y2] overlap: a
\* candidate room that overlaps or touches an accepted room is rejected and
\* carves no tile
C8_RoomsDoNotOverlap == [](C8_RoomsApart) /\ [][C8_RejectedCarvesNothing]_vars

\* a candidate that only touches the accepted room (a shared edge, no shared
\* inside cell) was rejected, and generation went on with the one room
C8_Witness ==
  /\ last.op = "room" /\ Len(gen.rooms) = 1 /\ gen.attempts = 2
  /\ Rectangle(gen.rooms[1]) \cap Rectangle(last.room) # {}
  /\ inner(gen.rooms[1]) \cap inner(last.room) = {}
  /\ last.room.x1 = gen.rooms[1].x2

(***************************************************************************)
(* Spec: the game.  A new game is generated, then each key the player      *)
(* presses is handled; a key that takes a turn is followed by the          *)
(* monsters' turns, the field of view and the clock.  A panic ends the     *)
(* process.                                                                *)
(***************************************************************************)

\* the player presses keys while the clock is below MaxTurns turns of 100
MaxTurns == 5

\* the DungeonConfig of the game's floors
GameConfig ==
  [max_rooms |-> 2,
   room_min_width |-> 2, room_max_width |-> 3,
   room_min_height |-> 2, room_max_height |-> 3,
   width |-> 7, height |-> 5, level |-> 1]

RoomDraw(room_width, room_height, x, y, corner_first) ==
  [room_width |-> room_width, room_height |-> room_height, x |-> x, y |-> y,
   corner_first |-> corner_first]

\* the draws of the generations the game is played on, per level: a set of
\* scripts for each.
\* Level 1: the first candidate is the only room (the second one touches it
\* and is rejected), so the stairs lie under the player; or two rooms joined
\* by a tunnel, with two orcs and a dagger in the first.
\* Level 2: one room with a rat and an orc, the stairs under the player.
\* Level 3: one room with a troll, a rat and a scroll
LevelScripts ==
  << { [rooms |-> <<RoomDraw(2, 2, 0, 0, TRUE), RoomDraw(2, 2, 2, 1, FALSE)>>,
        objects |-> <<[monsters |-> <<>>, items |-> <<>>]>>],
       [rooms |-> <<RoomDraw(3, 3, 0, 0, TRUE), RoomDraw(2, 3, 4, 1, TRUE)>>,
        objects |-> <<[monsters |-> << <<2, 2, 1>>, <<2, 1, 1>> >>,
                       items |-> << <<1, 2, 3>> >>],
                      [monsters |-> <<>>, items |-> <<>>]>>] },
     { [rooms |-> <<RoomDraw(3, 3, 0, 0, FALSE), RoomDraw(2, 3, 3, 1, TRUE)>>,
        objects |-> <<[monsters |-> << <<2, 2, 2>>, <<2, 1, 1>> >>, items |-> <<>>]>>] },
     { [rooms |-> <<RoomDraw(3, 3, 0, 0, FALSE), RoomDraw(3, 2, 1, 1, TRUE)>>,
        objects |-> <<[monsters |-> << <<2, 2, 3>>, <<1, 2, 2>> >>,
                       items |-> << <<2, 1, 2>> >>]>>] } >>

\* the deepest level the player descends to
MaxLevel == Len(LevelScripts)

\* the fields of the app the handlers read and write
App ==
  [gamemap |-> gamemap, objects |-> objects, action_queue |-> action_queue,
   time |-> time, build |-> gen.build]

\* the variables take the fields of the app a handler returns
Becomes(app) ==
  /\ gamemap' = app.gamemap
  /\ objects' = app.objects
  /\ action_queue' = app.action_queue
  /\ time' = app.time

Init ==
  /\ pc = "input"
  /\ \E build \in Builds, script \in LevelScripts[1] :
       LET app == new_game([gamemap |-> NoMap, objects |-> objects_add(EmptyMap, player),
                            action_queue |-> {}, time |-> 0, build |-> build],
                           GameConfig, script)
       IN /\ ScriptDrawable(GameConfig, script)
          /\ ~app.gamemap.panic
          /\ gen = [build |-> build]
          /\ gamemap = app.gamemap
          /\ objects = app.objects
          /\ action_queue = app.action_queue
          /\ time = app.time
  /\ pf = NoPathfinder
  /\ last = [op |-> "new_game"]

\* the run loop reads a key
ReadsKey == pc = "input" /\ time < MaxTurns * 100

\* where the run loop goes after a key that took a turn
AfterKey(app) == IF app.gamemap.panic THEN "panic" ELSE "drain"

\* whether the key read now is the player's first on this floor: nothing was
\* done since the floor was generated
FirstTurn ==
  \/ last.op \in {"new_game", "stairs"}
  \/ last.op = "refused" /\ last.first_turn

\* a movement key: bump_action, and the turn is taken
BumpKey ==
  /\ ReadsKey
  /\ \E direction \in InputDirections :
       LET app == bump_action(App, PLAYER, direction)
       IN /\ Becomes(app)
          /\ pc' = AfterKey(app)
          /\ last' = [op |-> "bump", first_turn |-> FirstTurn]
  /\ UNCHANGED <<gen, pf>>

\* the key '.': nothing is done, and the turn is taken
WaitKey ==
  /\ ReadsKey
  /\ pc' = "drain"
  /\ last' = [op |-> "wait", first_turn |-> FirstTurn]
  /\ UNCHANGED <<gamemap, objects, action_queue, time, gen, pf>>

\* the key '>': go_down_stairs, no turn is taken.  On the stairs the next
\* floor is generated and true is returned; off the stairs only a message
\* is logged and false is returned
StairsKey ==
  /\ ReadsKey
  /\ \/ /\ on_stairs(App)
        /\ gamemap.level < MaxLevel
        /\ \E script \in LevelScripts[gamemap.level + 1] :
             LET config == [GameConfig EXCEPT !.level = gamemap.level + 1]
                 app == go_down_stairs(App, GameConfig, script)
             IN /\ ScriptDrawable(config, script)
                /\ Becomes(app)
                /\ pc' = IF app.gamemap.panic THEN "panic" ELSE "input"
                /\ last' = [op |-> "stairs", dropped |-> action_queue, ret |-> TRUE]
     \/ /\ ~on_stairs(App)
        /\ pc' = "input"
        /\ last' = [op |-> "refused", first_turn |-> FirstTurn, ret |-> FALSE]
        /\ UNCHANGED <<gamemap, objects, action_queue, time>>
  /\ UNCHANGED <<gen, pf>>

\* the ids of the actors that took a turn since handle_monster_turns was entered
ActedBefore == IF last.op = "perform" THEN last.acted_before \cup last.acted ELSE {}

\* handle_monster_turns: an iteration of the loop that pops the top entry
\* and performs its action
DrainPerform ==
  /\ pc = "drain"
  /\ Continues(action_queue, time)
  /\ LET action == Top(action_queue)
         done == perform_action([App EXCEPT !.action_queue = @ \ {action}], action)
     IN /\ Becomes(done.app)
        /\ pc' = IF done.app.gamemap.panic THEN "panic" ELSE "drain"
        /\ last' = [op |-> "perform", action |-> action,
                    acted |-> IF done.acted THEN {action.id} ELSE {},
                    time_taken |-> done.time_taken,
                    acted_before |-> ActedBefore,
                    first_turn |-> last.first_turn]
  /\ UNCHANGED <<gen, pf>>

\* handle_monster_turns: the iteration that returns
DrainReturn ==
  /\ pc = "drain"
  /\ ~Continues(action_queue, time)
  /\ pc' = "drained"
  /\ last' = [op |-> "return", acted_before |-> ActedBefore,
              first_turn |-> last.first_turn]
  /\ UNCHANGED <<gamemap, objects, action_queue, time, gen, pf>>

\* the clock step of a turn
TURN_TIME == 100

\* the end of a turn in the run loop: update_fov, then the clock advances
EndTurn ==
  /\ pc = "drained"
  /\ LET app == update_fov(App, VIEW_RADIUS)
     IN /\ Becomes([app EXCEPT !.time = @ + TURN_TIME])
        /\ pc' = IF app.gamemap.panic THEN "panic" ELSE "input"
        /\ last' = [op |-> "end_turn"]
  /\ UNCHANGED <<gen, pf>>

Next == BumpKey \/ WaitKey \/ StairsKey \/ DrainPerform \/ DrainReturn \/ EndTurn

Spec == Init /\ [][Next]_vars

\* C1: when handle_monster_turns returns at clock value now, no entry left in
\* the action queue has time <= now (every turn of an actor takes a duration
\* greater than zero)
C1_DrainLeavesNothingDue ==
  pc = "drained" => \A a \in action_queue : a.time > time

\* handle_monster_turns returned after two actors took their turns, and
\* their next entries are left in the queue
C1_Witness ==
  /\ pc = "drained"
  /\ Cardinality(last.acted_before) >= 2
  /\ \A id \in last.acted_before : \E a \in action_queue : a.id = id

\* the step is a turn of an alive actor with an ai, taken by perform_action
C2_TakesTurn ==
  /\ pc = "drain" /\ pc' = "drain"
  /\ last'.op = "perform" /\ last'.acted # {}

\* C2: an alive AI actor popped with scheduled time t whose turn takes
\* duration d is re-inserted with time exactly t + d, whatever the clock
\* shows; and the drain goes on while an entry's scheduled time does not
\* exceed the clock, so the same actor may act again in the same drain
C2_ReinsertedAtScheduledTimePlusDuration ==
  [][/\ C2_TakesTurn =>
          /\ last'.action \in action_queue
          /\ last'.time_taken \in {objects[last'.action.id].move_speed,
                                   objects[last'.action.id].attack_speed,
                                   EMPTY_PATH_TIME}
          /\ action_queue' =
               (action_queue \ {last'.action})
                 \cup {[time |-> last'.action.time + last'.time_taken,
                        id |-> last'.action.id]}
     /\ (pc = "drain" /\ \E a \in action_queue : a.time <= time) => pc' # "drained"]_vars

\* an actor took its second turn of one drain: it was popped before the
\* clock's time, re-inserted at the clock's time and popped again
C2_Witness ==
  /\ pc = "drain" /\ last.op = "perform"
  /\ last.acted # {} /\ last.acted \subseteq last.acted_before
  /\ last.action.time = time
  /\ [time |-> last.action.time + last.time_taken, id |-> last.action.id] \in action_queue

\* no tile that is not walkable holds a blocker or an item
C3_WallsHoldNothing ==
  \A i \in DOMAIN gamemap.tiles :
    ~is_walkable(gamemap.tiles[i]) =>
      gamemap.tiles[i].blocker = None /\ gamemap.tiles[i].item = None

\* on the grid as it is, place_blocker and place_item of a new id panic on
\* every tile that is not walkable or whose slot is taken
C3_PlacementFails ==
  \A c \in Cells(gamemap) :
    LET tile == get_ref(gamemap, c[1], c[2])
        id == NextId(objects)
    IN /\ (~is_walkable(tile) \/ tile.blocker # None)
            => place_blocker(gamemap, id, c[1], c[2]).panic
       /\ (~is_walkable(tile) \/ tile.item # None)
            => place_item(gamemap, id, c[1], c[2]).panic

\* on one floor, no step puts an id into a slot that holds another id
C3_NeverOverwritten ==
  (gamemap'.level = gamemap.level /\ DOMAIN gamemap'.tiles = DOMAIN gamemap.tiles) =>
    \A i \in DOMAIN gamemap.tiles :
      /\ gamemap.tiles[i].blocker # None =>
           gamemap'.tiles[i].blocker \in {gamemap.tiles[i].blocker, None}
      /\ gamemap.tiles[i].item # None =>
           gamemap'.tiles[i].item \in {gamemap.tiles[i].item, None}

SpawnedIds == DOMAIN objects' \ DOMAIN objects

\* a step that went down the stairs and did not abort
WentDownStairs == gamemap'.level = gamemap.level + 1 /\ pc' # "panic"

\* C19: after a successful go_down_stairs the queue holds exactly one entry
\* for each AI monster spawned on the new floor and nothing else, no entry of
\* the previous floor, and the grid is the freshly generated one: nothing of
\* the previous floor is on it and only what is visible now is explored
C19_Step ==
  WentDownStairs =>
    LET spawned_ai == {id \in SpawnedIds : objects'[id].has_ai}
    IN /\ {a.id : a \in action_queue'} = spawned_ai
       /\ \A id \in spawned_ai : Cardinality({a \in action_queue' : a.id = id}) = 1
       /\ \A a \in action_queue' : a.time = time + FIRST_ACTION_DELAY
       /\ action_queue' \cap action_queue = {}
       /\ \A id \in spawned_ai : get_position(gamemap', id) # NonePos
       /\ DOMAIN gamemap'.objects \subseteq {PLAYER} \cup SpawnedIds
       /\ \A i \in DOMAIN gamemap'.tiles :
            /\ gamemap'.tiles[i].blocker \in {None, PLAYER} \cup SpawnedIds
            /\ gamemap'.tiles[i].item \in {None} \cup SpawnedIds
       /\ gamemap'.explored = gamemap'.visible
       /\ time' = time

FloorMonsters == {id \in DOMAIN gamemap.objects : objects[id].has_ai}

\* on a floor that was just generated every monster of the floor has exactly
\* one entry in the action queue, at the clock of the generation + 100, and
\* the queue holds nothing else
C25_RegisteredOnce ==
  FirstTurn /\ pc = "input" =>
    /\ \A id \in FloorMonsters :
         {a \in action_queue : a.id = id}
           = {[time |-> time + FIRST_ACTION_DELAY, id |-> id]}
    /\ \A a \in action_queue : a.id \in FloorMonsters

\* in the drain that follows the player's first key on a floor no actor
\* takes a turn
C25_NoTurnInFirstDrain ==
  pc = "drain" /\ last.first_turn => last'.op = "return"

\* C25: every monster with an AI placed by dungeon generation is registered
\* in the action queue exactly once, at time = clock at generation + 100,
\* and no monster takes a turn before the player's first turn on that floor
\* has been resolved
C25_MonstersWaitForFirstTurn ==
  [](C25_RegisteredOnce) /\ [][C25_NoTurnInFirstDrain]_vars

\* the drain of the player's first turn on a floor reached by the stairs
\* after the clock had advanced has returned, two monsters waiting in the queue
C25_Witness ==
  /\ pc = "drained" /\ last.op = "return"
  /\ gamemap.level > 1
  /\ time > 0
  /\ Cardinality(FloorMonsters) >= 2
  /\ \A id \in FloorMonsters :
       [time |-> time + FIRST_ACTION_DELAY, id |-> id] \in action_queue

\* a step of the run loop as the claim orders a tick: the clock has advanced
\* when the drain begins, neither the drain nor the recomputation of the
\* field of view moves it, and a key that takes no turn leaves it alone
C24_ClockThenDrain ==
  /\ (pc = "input" /\ pc' = "drain") => time' = time + TURN_TIME
  /\ (pc \in {"drain", "drained"} /\ pc' # "panic") => time' = time
  /\ (pc = "input" /\ pc' = "input") => time' = time

\* C24: for every input that consumes a turn the player's action,
\* then the clock advance, then the drain (the monsters see the advanced
\* clock), then the recomputation of the field of view happen in this order
\* before the next input is read; an input that consumes no turn advances
\* neither the clock nor any monster
C24_TickAdvancesClockFirst == [][C24_ClockThenDrain]_vars

\* the key '>' was read in this step
StairsKeyRead == pc = "input" /\ last' # last /\ last'.op \in {"stairs", "refused"}

\* the stairs of the floor lie on the player's tile
StairsUnderPlayer ==
  \E id \in DOMAIN objects :
    /\ objects[id].name = "Stairs"
    /\ get_position(gamemap, id) = get_position(gamemap, PLAYER)

\* C35: go_down_stairs returns true and increases the level by exactly 1 if
\* and only if the player's tile holds the stairs; otherwise it returns false
\* and leaves the grid, the level, the action queue, the clock and the
\* player's hp and max_hp unchanged
C35_Descends ==
  StairsKeyRead =>
    /\ last'.ret <=> StairsUnderPlayer
    /\ last'.ret => /\ pc' # "panic"
                    /\ gamemap'.level = gamemap.level + 1
    /\ ~last'.ret => /\ gamemap' = gamemap
                     /\ action_queue' = action_queue
                     /\ time' = time
                     /\ objects'[PLAYER].hp = objects[PLAYER].hp
                     /\ objects'[PLAYER].max_hp = objects[PLAYER].max_hp

AiMonsters == {id \in DOMAIN objects : objects[id].has_ai}

\* the entries of the action queue that belong to an id
EntriesOf(queue, id) == {a \in queue : a.id = id}

\* between ticks every alive monster with an ai on the floor has exactly one
\* entry in the action queue, and a dead one has at most one
C38_OnePendingEntry ==
  pc = "input" =>
    \A id \in AiMonsters :
      IF objects[id].alive /\ get_position(gamemap, id) # NonePos
        THEN Cardinality(EntriesOf(action_queue, id)) = 1
        ELSE Cardinality(EntriesOf(action_queue, id)) <= 1

\* the drain pops the entry of a dead monster without a turn and without
\* putting an entry back, and a dead monster without an entry never gets one
C38_StaleEntryDiscarded ==
  /\ (pc = "drain" /\ pc' # "drained" /\ ~objects[Top(action_queue).id].alive) =>
       /\ pc' = "drain"
       /\ last'.acted = {}
       /\ EntriesOf(action_queue', Top(action_queue).id) = {}
       /\ gamemap' = gamemap /\ objects' = objects
  /\ \A id \in AiMonsters :
       ~objects[id].alive /\ EntriesOf(action_queue, id) = {} =>
         /\ ~objects'[id].alive
         /\ EntriesOf(action_queue', id) = {}

\* C38: between ticks every alive AI monster on the current floor has exactly
\* one pending entry in the action queue; a dead monster has at most one
\* stale entry, which is discarded without re-insertion when it is popped,
\* and it never appears in the queue again
C38_OneEntryPerMonster == [](C38_OnePendingEntry) /\ [][C38_StaleEntryDiscarded]_vars

\* a tick has ended after the drain discarded the stale entry of a monster
\* the player killed, while another monster is alive and pending
C38_Witness ==
  /\ pc = "input"
  /\ \E id \in AiMonsters : ~objects[id].alive /\ EntriesOf(action_queue, id) = {}
  /\ \E id \in AiMonsters :
       /\ objects[id].alive
       /\ get_position(gamemap, id) # NonePos
       /\ \E a \in action_queue : a.id = id /\ a.time > time

(***************************************************************************)
(* SpecGrid: the grid's place / remove operations, called in any order on  *)
(* in-bounds coordinates.  A call that panics ends the process.            *)
(***************************************************************************)

\* how many calls a behaviour of SpecGrid makes
MaxCalls == 4

GridShape == [width |-> 2, height |-> 2]

\* the terrain of the grids the calls are made on, row by row
GridTerrains ==
  { <<"Floor", "Floor", "Floor", "Floor">>,
    <<"Floor", "Floor", "Floor", "Wall">>,
    <<"Wall", "Floor", "Floor", "Floor">> }

\* ids of the objects placed as blockers, and as items
GridBlockerIds == {1, 2}

GridItemIds == {3}

\* a grid of the given terrain with nothing on it
GridOf(terrain) ==
  [NewGameMap(GridShape.width, GridShape.height, 1) EXCEPT
     !.tiles = [i \in DOMAIN @ |-> NewTile(terrain[i + 1])]]

InitGrid ==
  /\ pc = "grid"
  /\ \E terrain \in GridTerrains : gamemap = GridOf(terrain)
  /\ last = [op |-> "none", n |-> 0]
  /\ objects = EmptyMap /\ action_queue = {} /\ time = 0
  /\ gen = NoGen /\ pf = NoPathfinder

GridCallAllowed == pc = "grid" /\ ~gamemap.panic /\ last.n < MaxCalls

GridPlaceBlocker ==
  /\ GridCallAllowed
  /\ \E id \in GridBlockerIds, c \in Cells(gamemap) :
       /\ gamemap' = place_blocker(gamemap, id, c[1], c[2])
       /\ last' = [op |-> "place_blocker", n |-> last.n + 1, id |-> id,
                   x |-> c[1], y |-> c[2], ret |-> None]
  /\ UNCHANGED <<objects, action_queue, time, pc, gen, pf>>

GridPlaceItem ==
  /\ GridCallAllowed
  /\ \E id \in GridItemIds, c \in Cells(gamemap) :
       /\ gamemap' = place_item(gamemap, id, c[1], c[2])
       /\ last' = [op |-> "place_item", n |-> last.n + 1, id |-> id,
                   x |-> c[1], y |-> c[2], ret |-> None]
  /\ UNCHANGED <<objects, action_queue, time, pc, gen, pf>>

GridRemoveBlocker ==
  /\ GridCallAllowed
  /\ \E c \in Cells(gamemap) :
       /\ gamemap' = remove_blocker(gamemap, c[1], c[2])
       /\ last' = [op |-> "remove_blocker", n |-> last.n + 1, id |-> None,
                   x |-> c[1], y |-> c[2],
                   ret |-> RemovedBlocker(gamemap, c[1], c[2])]
  /\ UNCHANGED <<objects, action_queue, time, pc, gen, pf>>

GridRemoveItem ==
  /\ GridCallAllowed
  /\ \E c \in Cells(gamemap) :
       /\ gamemap' = remove_item(gamemap, c[1], c[2])
       /\ last' = [op |-> "remove_item", n |-> last.n + 1, id |-> None,
                   x |-> c[1], y |-> c[2],
                   ret |-> RemovedItem(gamemap, c[1], c[2])]
  /\ UNCHANGED <<objects, action_queue, time, pc, gen, pf>>

NextGrid == GridPlaceBlocker \/ GridPlaceItem \/ GridRemoveBlocker \/ GridRemoveItem

SpecGrid == InitGrid /\ [][NextGrid]_vars

\* place_blocker(id, x, y) has just succeeded: get_ref(x, y) and
\* get_position(id) report it
C4_PlaceThenGet ==
  (last'.op = "place_blocker" /\ ~gamemap'.panic) =>
    /\ get_ref(gamemap', last'.x, last'.y).blocker = last'.id
    /\ get_position(gamemap', last'.id) = <<last'.x, last'.y>>

\* remove_blocker(x, y) right after a successful place_blocker(id, x, y)
C4_RemoveAfterPlace ==
  (/\ last.op = "place_blocker" /\ ~gamemap.panic
   /\ last'.op = "remove_blocker" /\ last'.x = last.x /\ last'.y = last.y) =>
    /\ ~gamemap'.panic
    /\ last'.ret = last.id
    /\ get_ref(gamemap', last.x, last.y).blocker = None
    /\ get_position(gamemap', last.id) = NonePos
    /\ get_ref(gamemap', last.x, last.y).item = get_ref(gamemap, last.x, last.y).item
    /\ \A i \in DOMAIN gamemap.tiles :
         i # coords_to_idx(last.x, last.y, gamemap.width) =>
           gamemap'.tiles[i] = gamemap.tiles[i]

\* C4: where place_blocker(id, x, y) succeeds, get_ref(x, y) then reports
\* blocker = id and get_position(id) = (x, y); a following remove_blocker(x, y)
\* returns id, leaves the tile without blocker and get_position(id) = None,
\* and leaves the tile's item slot and every other tile unchanged
C4_PlaceGetRemove == [][C4_PlaceThenGet /\ C4_RemoveAfterPlace]_vars

\* a blocker was placed on a tile holding an item, beside another blocker,
\* and removed again
C4_Witness ==
  /\ last.op = "remove_blocker" /\ ~gamemap.panic
  /\ last.ret \in GridBlockerIds
  /\ get_ref(gamemap, last.x, last.y).item \in GridItemIds
  /\ \E c \in Cells(gamemap) : get_ref(gamemap, c[1], c[2]).blocker \in GridBlockerIds

(***************************************************************************)
(* SpecEngine: the engine's handlers (handle_melee_ai, move_action,        *)
(* bump_action) called on a scene: a small floor with the player and one   *)
(* melee monster on it, lit by update_fov                                  *)
(***************************************************************************)

EngineShape == [width |-> 8, height |-> 4]

\* the floor cells of the scenes: an open room, a corridor cut in two by a
\* wall, and a room that reaches the grid's left and upper edge
EngineFloors ==
  { (1 .. 6) \X (1 .. 2),
    {1, 2, 4, 5, 6} \X {1},
    (0 .. 2) \X (0 .. 1) }

\* the monsters of the scenes
EngineMonsters == {orc, troll}

\* a monster that two hits of the player have left with 2 hit points
WoundedMonsters == {[orc EXCEPT !.hp = 2]}

\* the memory of the monster and the clock of the scene: no memory, the
\* player seen at time 0 one turn ago, the player seen at time 0 long
\* enough ago for the memory to be forgotten, and the player seen at the
\* first clock value exactly MELEE_FORGET_TIME ago
EngineMemories == {[target |-> None, last_seen_time |-> None, now |-> 100],
                   [target |-> PLAYER, last_seen_time |-> 0, now |-> 100],
                   [target |-> PLAYER, last_seen_time |-> 0, now |-> 600],
                   [target |-> PLAYER, last_seen_time |-> 100, now |-> 600]}

\* the grid of the scenes before anything is carved into it
SceneShapeMap == NewGameMap(EngineShape.width, EngineShape.height, 1)

\* the floor tile of every scene on which a potion lies
SceneItemAt == <<2, 1>>

\* id of the monster of a scene: the object added after the player
MONSTER == PLAYER + 1

\* the scene before its first update_fov: floor carved, the player, the
\* monster and a potion placed, the monster's action queued
SceneUnlit(floor, player_pos, monster, monster_pos, memory, now, build) ==
  LET dungeon == [NewGameMap(EngineShape.width, EngineShape.height, 1) EXCEPT
                    !.tiles = [i \in DOMAIN @ |->
                                 IF idx_to_coords(i, EngineShape.width) \in floor
                                   THEN NewTile("Floor") ELSE NewTile("Wall")]]
      with_player == place_blocker(dungeon, PLAYER, player_pos[1], player_pos[2])
      store == objects_add(objects_add(EmptyMap, player),
                           [monster EXCEPT !.target = memory.target,
                                           !.last_seen_time = memory.last_seen_time])
      with_monster == place_blocker(with_player, MONSTER, monster_pos[1], monster_pos[2])
      with_item == place_item(with_monster, NextId(store), SceneItemAt[1], SceneItemAt[2])
  IN [gamemap |-> with_item, objects |-> objects_add(store, potion_cure_wounds),
      action_queue |-> {[time |-> now, id |-> MONSTER]},
      time |-> now, build |-> build]

\* the scene with the field of view computed from the player
Scene(floor, player_pos, monster, monster_pos, memory, now, build) ==
  update_fov(SceneUnlit(floor, player_pos, monster, monster_pos, memory, now, build),
             VIEW_RADIUS)

InitEngine ==
  /\ pc = "engine"
  /\ \E floor \in EngineFloors, build \in Builds,
        monster \in EngineMonsters \cup WoundedMonsters, memory \in EngineMemories :
       \E player_pos \in floor, monster_pos \in floor :
         LET app == Scene(floor, player_pos, monster, monster_pos, memory,
                          memory.now, build)
         IN /\ player_pos # monster_pos
            /\ ~app.gamemap.panic
            /\ gen = [build |-> build]
            /\ gamemap = app.gamemap
            /\ objects = app.objects
            /\ action_queue = app.action_queue
            /\ time = app.time
  /\ pf = NoPathfinder
  /\ last = [op |-> "none"]

\* a handler is called on the scene as it was set up
EngineCallAllowed == pc = "engine" /\ ~gamemap.panic

\* the position of the program after a handler returned or panicked
EngineAfter(app) == IF app.gamemap.panic THEN "panic" ELSE "returned"

\* one iteration of the drain: the due entry of the monster is popped and
\* perform_action gives the monster its turn through handle_melee_ai
EngineMeleeAi ==
  /\ EngineCallAllowed
  /\ Continues(action_queue, time)
  /\ LET action == Top(action_queue)
         done == perform_action([App EXCEPT !.action_queue = @ \ {action}], action)
     IN /\ done.acted
        /\ Becomes(done.app)
        /\ pc' = EngineAfter(done.app)
        /\ last' = [op |-> "handle_melee_ai", id |-> action.id,
                    before |-> App, time_taken |-> done.time_taken]
  /\ UNCHANGED <<gen, pf>>

\* move_action(app, id, dest) with dest in bounds
EngineMove ==
  /\ EngineCallAllowed
  /\ \E id \in {PLAYER, MONSTER}, dest \in Cells(gamemap) :
       LET app == move_action(App, id, dest)
       IN /\ Becomes(app)
          /\ pc' = EngineAfter(app)
          /\ last' = [op |-> "move_action", id |-> id,
                      dest |-> dest, before |-> App]
  /\ UNCHANGED <<gen, pf>>

\* bump_action(app, id, direction)
EngineBump ==
  /\ EngineCallAllowed
  /\ \E id \in {PLAYER, MONSTER}, direction \in InputDirections :
       LET app == bump_action(App, id, direction)
       IN /\ Becomes(app)
          /\ pc' = EngineAfter(app)
          /\ last' = [op |-> "bump_action", id |-> id,
                      direction |-> direction, before |-> App]
  /\ UNCHANGED <<gen, pf>>

NextEngine == EngineMeleeAi \/ EngineMove \/ EngineBump

SpecEngine == InitEngine /\ [][NextEngine]_vars

\* the cells a melee monster at root can walk to: the pathfinder of
\* handle_melee_ai finds a path exactly to these
AiReach(gm, root) ==
  ReachFrom([costs |-> AiCosts(gm), width |-> gm.width, height |-> gm.height,
             root |-> root], {root})

\* the monster of the last handle_melee_ai call went into it with a target it
\* still remembered, and no walk led from the monster to that target
RememberedTargetNoPath ==
  /\ last.op = "handle_melee_ai"
  /\ LET before == last.before
         monster == before.objects[last.id]
         monster_pos == get_position(before.gamemap, last.id)
     IN /\ ~is_visible(before.gamemap, monster_pos[1], monster_pos[2])
        /\ monster.target # None
        /\ ~Forgets(monster.last_seen_time, before.time)
        /\ get_position(before.gamemap, monster.target) \notin AiReach(before.gamemap, monster_pos)

Distance(a, b) == Max(Abs(a[1] - b[1]), Abs(a[2] - b[2]))

\* the tiles on which an id is the blocker
BlockerTiles(gm, id) == {i \in DOMAIN gm.tiles : gm.tiles[i].blocker = id}

\* the ids that are blockers of some tile
BlockerIds(gm) == {gm.tiles[i].blocker : i \in DOMAIN gm.tiles} \ {None}

\* whether move_action finds its destination blocked, by the tile or a blocker
MoveRejected(gm, dest) ==
  \/ ~is_walkable(get_ref(gm, dest[1], dest[2]))
  \/ get_ref(gm, dest[1], dest[2]).blocker # None

\* C17: move_action(id, dest) with dest in bounds leaves the grid unchanged
\* if dest is not walkable or holds a blocker; otherwise id is the blocker of
\* dest and of no other tile, its old tile has no blocker, get_position(id)
\* is dest, and every other tile, every item slot, every other position and
\* the set of blocker ids are unchanged
C17_MoveRelocatesOrRejects ==
  last.op = "move_action" =>
    LET gm == last.before.gamemap
        dest == last.dest
        old == get_position(gm, last.id)
        from_idx == coords_to_idx(old[1], old[2], gm.width)
        to_idx == coords_to_idx(dest[1], dest[2], gm.width)
    IN /\ pc # "panic"
       /\ objects = last.before.objects
       /\ MoveRejected(gm, dest) => gamemap = gm
       /\ ~MoveRejected(gm, dest) =>
            /\ gamemap.tiles[to_idx].blocker = last.id
            /\ gamemap.tiles[from_idx].blocker = None
            /\ BlockerTiles(gamemap, last.id) = {to_idx}
            /\ get_position(gamemap, last.id) = dest
            /\ \A i \in DOMAIN gm.tiles \ {from_idx, to_idx} : gamemap.tiles[i] = gm.tiles[i]
            /\ \A i \in DOMAIN gm.tiles :
                 /\ gamemap.tiles[i].item = gm.tiles[i].item
                 /\ gamemap.tiles[i].tile_type = gm.tiles[i].tile_type
            /\ BlockerIds(gamemap) = BlockerIds(gm)
            /\ \A id \in DOMAIN gm.objects \ {last.id} :
                 get_position(gamemap, id) = get_position(gm, id)
            /\ DOMAIN gamemap.objects = DOMAIN gm.objects
            /\ gamemap.visible = gm.visible /\ gamemap.explored = gm.explored

\* an actor has been moved onto the free tile the potion lies on, from a tile
\* that is not next to it
C17_Witness ==
  /\ last.op = "move_action"
  /\ ~MoveRejected(last.before.gamemap, last.dest)
  /\ last.dest = SceneItemAt
  /\ Distance(get_position(last.before.gamemap, last.id), last.dest) > 1
  /\ get_position(gamemap, last.id) = last.dest
  /\ get_ref(gamemap, last.dest[1], last.dest[2]).item # None

\* the cell next to the actor of the last bump_action, in its direction
BumpTarget ==
  LET pos == get_position(last.before.gamemap, last.id)
      deltas == direction_to_deltas(last.direction)
  IN <<pos[1] + deltas[1], pos[2] + deltas[2]>>

BumpOutOfBounds ==
  \/ BumpTarget[1] < 0 \/ BumpTarget[1] >= last.before.gamemap.width
  \/ BumpTarget[2] < 0 \/ BumpTarget[2] >= last.before.gamemap.height

\* the program's state, as a handler sees it, is what it was before the call
UnchangedByCall ==
  /\ gamemap = last.before.gamemap
  /\ objects = last.before.objects
  /\ action_queue = last.before.action_queue
  /\ time = last.before.time

\* C18: bump_action(id, direction) changes nothing and raises no error if
\* the neighbouring cell is outside the grid; if the cell holds a blocker, a
\* melee attack on that blocker is resolved (its hit points drop by the hit,
\* a monster it kills leaves the grid) and the actor does not move;
\* otherwise the actor moves into the cell if it is walkable
C18_BumpAttacksOrMoves ==
  last.op = "bump_action" =>
    LET gm == last.before.gamemap
        old == get_position(gm, last.id)
        blocker == get_ref(gm, BumpTarget[1], BumpTarget[2]).blocker
        attacker == last.before.objects[last.id]
        target == last.before.objects[blocker]
        hit == Max(attacker.power - target.defense, 0)
    IN /\ pc # "panic"
       /\ BumpOutOfBounds => UnchangedByCall
       /\ ~BumpOutOfBounds /\ blocker # None =>
            /\ get_position(gamemap, last.id) = old
            /\ BlockerTiles(gamemap, last.id) = BlockerTiles(gm, last.id)
            /\ objects[blocker].hp = Max(target.hp - hit, 0)
            /\ objects[blocker].alive = (target.hp > hit)
            /\ \A id \in DOMAIN objects \ {blocker} : objects[id] = last.before.objects[id]
            /\ IF target.hp > hit \/ blocker = PLAYER
                 THEN gamemap = gm
                 ELSE gamemap = remove_blocker(gm, BumpTarget[1], BumpTarget[2])
       /\ ~BumpOutOfBounds /\ blocker = None =>
            /\ objects = last.before.objects
            /\ IF is_walkable(get_ref(gm, BumpTarget[1], BumpTarget[2]))
                 THEN /\ get_position(gamemap, last.id) = BumpTarget
                      /\ get_ref(gamemap, BumpTarget[1], BumpTarget[2]).blocker = last.id
                      /\ get_ref(gamemap, old[1], old[2]).blocker = None
                 ELSE gamemap = gm

\* an actor on the grid's edge has bumped towards the outside
C18_Witness ==
  /\ last.op = "bump_action"
  /\ BumpOutOfBounds
  /\ pc = "returned"
  /\ UnchangedByCall

\* the distance of two tiles in steps of the 4 cardinal directions
CardinalDistance(a, b) == Abs(a[1] - b[1]) + Abs(a[2] - b[2])

\* the tiles of the rectangle spanned by two tiles
Between(a, b) ==
  (Min(a[1], b[1]) .. Max(a[1], b[1])) \X (Min(a[2], b[2]) .. Max(a[2], b[2]))

\* the last call was the turn of a monster that stood 5 tiles from the player
\* on open floor, its tile visible, with no third blocker between the two
FiveTilesInSight ==
  /\ last.op = "handle_melee_ai"
  /\ LET gm == last.before.gamemap
         monster_pos == get_position(gm, last.id)
         player_pos == get_position(gm, PLAYER)
     IN /\ Distance(monster_pos, player_pos) = 5
        /\ is_visible(gm, monster_pos[1], monster_pos[2])
        /\ \A c \in Between(monster_pos, player_pos) :
             /\ is_walkable(get_ref(gm, c[1], c[2]))
             /\ get_ref(gm, c[1], c[2]).blocker \in {None, PLAYER, last.id}

\* C14: the turn of a melee monster 5 tiles from the player on open floor
\* with full line of sight resolves a melee attack on the player or leaves
\* the monster strictly closer to the player than before
C14_ApproachesOrAttacks ==
  FiveTilesInSight =>
    /\ pc # "panic"
    /\ \/ objects[PLAYER].hp < last.before.objects[PLAYER].hp
       \/ /\ Distance(get_position(gamemap, last.id), get_position(gamemap, PLAYER))
               < Distance(get_position(last.before.gamemap, last.id),
                          get_position(last.before.gamemap, PLAYER))
          /\ CardinalDistance(get_position(gamemap, last.id), get_position(gamemap, PLAYER))
               < CardinalDistance(get_position(last.before.gamemap, last.id),
                                  get_position(last.before.gamemap, PLAYER))

\* a monster 5 tiles from the player and one row off has taken its turn and
\* stands 4 tiles from the player
C14_Witness ==
  /\ FiveTilesInSight
  /\ get_position(last.before.gamemap, last.id)[2] # get_position(gamemap, PLAYER)[2]
  /\ Distance(get_position(gamemap, last.id), get_position(gamemap, PLAYER)) = 4
  /\ last.time_taken = objects[last.id].move_speed

TurnInSight ==
  /\ last.op = "handle_melee_ai"
  /\ LET monster_pos == get_position(last.before.gamemap, last.id)
     IN is_visible(last.before.gamemap, monster_pos[1], monster_pos[2])

\* the monster of the last handle_melee_ai call stood on a tile that is not
\* visible and went into the turn with a remembered target
TurnOnMemory ==
  /\ last.op = "handle_melee_ai"
  /\ ~TurnInSight
  /\ last.before.objects[last.id].target # None

\* the time since the monster of the last handle_melee_ai call saw its target
SinceSeen == last.before.time - last.before.objects[last.id].last_seen_time

\* C31 as stated: a melee monster on a visible tile ends its turn with
\* target = player and last_seen_time = the clock; a remembered target seen
\* within MELEE_FORGET_TIME is kept, and it is cleared only when the time
\* since last_seen_time is longer than MELEE_FORGET_TIME
C31_ForgetsAfterLongerThanThreshold ==
  /\ TurnInSight =>
       /\ objects[last.id].target = PLAYER
       /\ objects[last.id].last_seen_time = last.before.time
  /\ TurnOnMemory =>
       /\ SinceSeen <= MELEE_FORGET_TIME =>
            objects[last.id].target = last.before.objects[last.id].target
       /\ objects[last.id].target = None => SinceSeen > MELEE_FORGET_TIME

\* C31: a melee monster on a visible tile ends its turn with target = player
\* and last_seen_time = the clock; a remembered target is kept, with its
\* last_seen_time, while it was seen less than MELEE_FORGET_TIME ago, and
\* is cleared when the time since last_seen_time is MELEE_FORGET_TIME or more
C31_ForgetsAtThreshold ==
  /\ TurnInSight =>
       /\ objects[last.id].target = PLAYER
       /\ objects[last.id].last_seen_time = last.before.time
  /\ TurnOnMemory =>
       /\ objects[last.id].last_seen_time = last.before.objects[last.id].last_seen_time
       /\ objects[last.id].target =
            IF SinceSeen >= MELEE_FORGET_TIME THEN None
            ELSE last.before.objects[last.id].target

\* a monster that saw the player exactly MELEE_FORGET_TIME ago has taken its
\* turn out of sight and has no target any more
C31_Witness ==
  /\ TurnOnMemory
  /\ SinceSeen = MELEE_FORGET_TIME
  /\ objects[last.id].target = None
  /\ pc = "returned"

\* the cell next to the player in a direction
NextTo(direction) ==
  LET pos == get_position(gamemap, PLAYER)
      deltas == direction_to_deltas(direction)
  IN <<pos[1] + deltas[1], pos[2] + deltas[2]>>

\* the hit points a defender is left with by an attack that does a damage
HpAfter(hp, dealt) == Max(hp - dealt, 0)

\* C32: the damage of a melee_action is damage(power(attacker),
\* defense(defender)): a hit can deal max(0, power - m) for every m in
\* [defense / 2, defense] and deals one of these, and a hit whose computed
\* damage is 0 leaves the defender's hp and the grid unchanged
C32_MeleeDamageIsMitigated ==
  /\ EngineCallAllowed =>
       \A direction \in InputDirections :
         (/\ in_bounds(gamemap, NextTo(direction)[1], NextTo(direction)[2])
          /\ get_ref(gamemap, NextTo(direction)[1], NextTo(direction)[2]).blocker = MONSTER)
         => \A m \in MitigationRange(defense(App, MONSTER)) :
              ENABLED (/\ EngineBump
                       /\ last'.id = PLAYER
                       /\ last'.direction = direction
                       /\ objects'[MONSTER].hp =
                            HpAfter(objects[MONSTER].hp, damage(power(App, PLAYER), m)))
  /\ last.op = "bump_action" /\ ~BumpOutOfBounds
       /\ get_ref(last.before.gamemap, BumpTarget[1], BumpTarget[2]).blocker # None =>
       LET target_id == get_ref(last.before.gamemap, BumpTarget[1], BumpTarget[2]).blocker
           hp == last.before.objects[target_id].hp
           strength == power(last.before, last.id)
           armor == defense(last.before, target_id)
       IN /\ \E m \in MitigationRange(armor) :
               objects[target_id].hp = HpAfter(hp, damage(strength, m))
          /\ objects[target_id].hp = hp => gamemap = last.before.gamemap

\* the cost generate_simple_costs_array gives to a tile that has a blocker
OCCUPIED_COST == 5

\* C33: the cost array the melee ai hands to the Pathfinder gives 0 to every
\* tile that is not walkable, 1 to every walkable tile without a blocker and
\* OCCUPIED_COST to every walkable tile another actor blocks; no walkable
\* tile is impassable
C33_CostsPenaliseOccupiedCells ==
  last.op = "handle_melee_ai" /\ last.before.objects[last.id].target # None =>
    LET gm == last.before.gamemap
        costs == AiCosts(gm)
    IN \A i \in DOMAIN gm.tiles :
         /\ ~is_walkable(gm.tiles[i]) => costs[i] = 0
         /\ is_walkable(gm.tiles[i]) => CanWalkInto(costs, i)
         /\ is_walkable(gm.tiles[i]) /\ gm.tiles[i].blocker = None => costs[i] = 1
         /\ is_walkable(gm.tiles[i]) /\ gm.tiles[i].blocker \notin {None, last.id} =>
              costs[i] = OCCUPIED_COST

(***************************************************************************)
(* SpecDamage: damage(power, defense) called on some power and defense     *)
(***************************************************************************)

\* the largest power and defense the calls are made with; the fighters and
\* the equipment of entities.rs give at most power 5 + 2 + 4, defense 1 + 4,
\* and the scroll of lightning attacks with power 8
MaxPower == 12

MaxDefense == 6

\* how far below 0 the power and defense of the calls go
MaxNegative == 2

\* the least power and defense the calls are made with
MinStat == -MaxNegative

InitDamage ==
  /\ pc = "damage"
  /\ last = [op |-> "none"]
  /\ gamemap = NoMap /\ objects = EmptyMap /\ action_queue = {} /\ time = 0
  /\ gen = NoGen /\ pf = NoPathfinder

\* damage(power, defense): the rng draws the mitigated damage
DamageReturns ==
  /\ pc = "damage"
  /\ \E power_value \in MinStat .. MaxPower, defense_value \in MinStat .. MaxDefense :
       \E mitigated_damage \in MitigationRange(defense_value) :
         last' = [op |-> "damage", power |-> power_value, defense |-> defense_value,
                  ret |-> damage(power_value, mitigated_damage)]
  /\ UNCHANGED <<gamemap, objects, action_queue, time, pc, gen, pf>>

\* damage(power, defense) on a defense whose range is empty
DamagePanics ==
  /\ pc = "damage"
  /\ \E power_value \in MinStat .. MaxPower, defense_value \in MinStat .. MaxDefense :
       /\ MitigationRange(defense_value) = {}
       /\ last' = [op |-> "damage", power |-> power_value, defense |-> defense_value,
                   ret |-> None]
  /\ pc' = "panic"
  /\ UNCHANGED <<gamemap, objects, action_queue, time, gen, pf>>

NextDamage == DamageReturns \/ DamagePanics

SpecDamage == InitDamage /\ [][NextDamage]_vars

\* the powers and defenses the fighters of the program carry: the base
\* values of entities.rs and the bonuses of the equipment, none negative
FighterCarries(power_value, defense_value) == power_value >= 0 /\ defense_value >= 0

\* C16: for a power and a defense a fighter can carry, damage returns d with
\* 0 <= d <= power, and d = max(0, power - m) for some m with
\* defense / 2 <= m <= defense
C16_DamageWithinPower ==
  last.op = "damage" /\ FighterCarries(last.power, last.defense) =>
    /\ pc # "panic"
    /\ 0 <= last.ret /\ last.ret <= last.power
    /\ \E m \in (last.defense \div 2) .. last.defense :
         last.ret = IF last.power - m > 0 THEN last.power - m ELSE 0

\* an attack weaker than what the defense mitigated has returned 0
C16_Witness ==
  /\ last.op = "damage"
  /\ FighterCarries(last.power, last.defense)
  /\ last.power > 0
  /\ last.power <= last.defense
  /\ last.ret = 0

(***************************************************************************)
(* SpecCombat: a fight in a small room.  The player bumps and casts        *)
(* lightning, the queue's due entries are performed and the turn ends, in  *)
(* any order                                                               *)
(***************************************************************************)

\* how many handler calls are made in a fight
MaxCombatCalls == 3

\* the floor of the room of the fight
CombatFloor == (1 .. 3) \X (1 .. 2)

InitCombat ==
  /\ pc = "combat"
  /\ \E build \in Builds, monster \in EngineMonsters :
       \E player_pos \in CombatFloor, monster_pos \in CombatFloor :
         LET app == Scene(CombatFloor, player_pos, monster, monster_pos,
                          [target |-> None, last_seen_time |-> None],
                          FIRST_ACTION_DELAY, build)
         IN /\ player_pos # monster_pos
            /\ ~app.gamemap.panic
            /\ gen = [build |-> build]
            /\ gamemap = app.gamemap
            /\ objects = app.objects
            /\ action_queue = app.action_queue
            /\ time = app.time
  /\ pf = NoPathfinder
  /\ last = [op |-> "none", n |-> 0, died_at |-> NonePos]

CombatCallAllowed == pc = "combat" /\ ~gamemap.panic /\ last.n < MaxCombatCalls

\* the history of the fight after a call: where the monster died, once it has
CombatLast(op, app) ==
  [op |-> op, n |-> last.n + 1,
   died_at |-> IF objects[MONSTER].alive /\ ~app.objects[MONSTER].alive
                 THEN get_position(gamemap, MONSTER)
                 ELSE last.died_at]

\* bump_action(app, PLAYER, direction)
CombatBump ==
  /\ CombatCallAllowed
  /\ \E direction \in InputDirections :
       LET app == bump_action(App, PLAYER, direction)
       IN /\ Becomes(app)
          /\ pc' = IF app.gamemap.panic THEN "panic" ELSE "combat"
          /\ last' = CombatLast("bump_action", app)
  /\ UNCHANGED <<gen, pf>>

\* cast_lightning(app, target) at a visible tile
CombatLightning ==
  /\ CombatCallAllowed
  /\ \E target \in Cells(gamemap) :
       LET target_id == get_blocking_object_id(App, target[1], target[2])
       IN /\ is_visible(gamemap, target[1], target[2])
          /\ \E mitigated_damage \in
                  IF target_id \in DOMAIN objects
                    THEN MitigationRange(defense(App, target_id)) ELSE {0} :
               LET app == cast_lightning(App, target, mitigated_damage)
               IN /\ Becomes(app)
                  /\ pc' = IF app.gamemap.panic THEN "panic" ELSE "combat"
                  /\ last' = CombatLast("cast_lightning", app)
  /\ UNCHANGED <<gen, pf>>

\* one iteration of handle_monster_turns: the due entry is popped and performed
CombatPerform ==
  /\ CombatCallAllowed
  /\ Continues(action_queue, time)
  /\ LET action == Top(action_queue)
         done == perform_action([App EXCEPT !.action_queue = @ \ {action}], action)
     IN /\ Becomes(done.app)
        /\ pc' = IF done.app.gamemap.panic THEN "panic" ELSE "combat"
        /\ last' = [CombatLast("perform", done.app) EXCEPT !.n = last.n]
  /\ UNCHANGED <<gen, pf>>

\* the end of a turn: the field of view is recomputed and the clock advances
CombatEndTurn ==
  /\ CombatCallAllowed
  /\ ~Continues(action_queue, time)
  /\ LET lit == update_fov(App, VIEW_RADIUS)
     IN /\ Becomes([lit EXCEPT !.time = @ + TURN_TIME])
        /\ pc' = IF lit.gamemap.panic THEN "panic" ELSE "combat"
        /\ last' = CombatLast("end_turn", lit)
  /\ UNCHANGED <<gen, pf>>

NextCombat == CombatBump \/ CombatLightning \/ CombatPerform \/ CombatEndTurn

SpecCombat == InitCombat /\ [][NextCombat]_vars

\* the monster's hit points have reached 0
MonsterDead == objects[MONSTER].hp = 0

\* a dead monster is not alive, has no position and is on no tile
C15_DeadIsOffTheGrid ==
  MonsterDead =>
    /\ ~objects[MONSTER].alive
    /\ get_position(gamemap, MONSTER) = NonePos
    /\ BlockerTiles(gamemap, MONSTER) = {}

\* the step in which the monster dies frees its tile, and no step after it
\* changes the dead monster, queues an action for it or aborts the process
C15_RemovedOnce ==
  /\ (~MonsterDead /\ MonsterDead' =>
        LET pos == get_position(gamemap, MONSTER)
        IN get_ref(gamemap', pos[1], pos[2]).blocker = None)
  /\ (MonsterDead =>
        /\ pc' # "panic"
        /\ objects'[MONSTER] = objects[MONSTER]
        /\ {a \in action_queue' : a.id = MONSTER} \subseteq action_queue)

\* C15: a monster whose hp reaches 0 is marked not alive and leaves its tile
\* exactly once: the tile is free, get_position is None, and no later attack
\* on the cell, lightning or pop of its stale queue entry removes it again
\* or lets it act
C15_DiesAndVacatesOnce == [](C15_DeadIsOffTheGrid) /\ [][C15_RemovedOnce]_vars

\* the monster has died, the player has stepped onto the tile it died on, and
\* the monster's stale queue entry has been popped
C15_Witness ==
  /\ MonsterDead
  /\ last.op = "perform"
  /\ last.died_at # NonePos
  /\ get_position(gamemap, PLAYER) = last.died_at
  /\ \A a \in action_queue : a.id # MONSTER

(***************************************************************************)
(* SpecFov: update_fov called with some radius on a scene                  *)
(***************************************************************************)

\* how many calls (update_fov, movement keys) are made on a scene
MaxFovCalls == 4

\* the radii update_fov is called with
FovRadii == {1, 2, VIEW_RADIUS}

\* the draws of a generation on GenConfig whose tunnel drifts: two rooms of
\* one floor cell each, (1, 2) and (4, 3); the tunnel's second segment runs
\* from the corner (1, 3) and ends on the grid's left edge
DriftScript ==
  [rooms |-> <<RoomDraw(2, 2, 0, 1, TRUE), RoomDraw(2, 2, 3, 2, FALSE)>>,
   objects |-> <<[monsters |-> <<>>, items |-> <<>>],
                 [monsters |-> <<>>, items |-> <<>>]>>]

\* the app after generate_dungeon made the draws of DriftScript
DriftDungeon(build) ==
  generate_dungeon([gamemap |-> NoMap, objects |-> objects_add(EmptyMap, player),
                    action_queue |-> {}, time |-> 0, build |-> build],
                   GenConfig, DriftScript)

\* the cell of a floor furthest to the right, the lowest of these
FarCorner(floor) ==
  CHOOSE c \in floor : \A d \in floor : d[1] < c[1] \/ (d[1] = c[1] /\ d[2] <= c[2])

\* the scenes update_fov is called on: the player on a floor of EngineFloors
\* with an orc in its far corner, or the player on the generated floor of
\* DriftScript
FovScenes(build) ==
  {SceneUnlit(fp[1], fp[2], orc, FarCorner(fp[1]),
              [target |-> None, last_seen_time |-> None], FIRST_ACTION_DELAY, build) :
     fp \in {fp \in EngineFloors \X Cells(SceneShapeMap) :
               fp[2] \in fp[1] \ {FarCorner(fp[1])}}}
    \cup {DriftDungeon(build)}

InitFov ==
  /\ pc = "fov"
  /\ \E build \in Builds :
       \E app \in FovScenes(build) :
         /\ ScriptDrawable(GenConfig, DriftScript)
         /\ ~app.gamemap.panic
         /\ gen = [build |-> build]
         /\ gamemap = app.gamemap
         /\ objects = app.objects
         /\ action_queue = app.action_queue
         /\ time = app.time
  /\ pf = NoPathfinder
  /\ last = [op |-> "none", n |-> 0]

FovCallAllowed == pc = "fov" /\ last.n < MaxFovCalls

\* what the last call leaves behind for the next one to compare with
FovBefore ==
  [op |-> last.op, radius |-> IF last.op = "update_fov" THEN last.radius ELSE 0,
   visible |-> gamemap.visible, explored |-> gamemap.explored]

\* update_fov(app, radius)
FovUpdate ==
  /\ FovCallAllowed
  /\ \E radius \in FovRadii :
       LET app == update_fov(App, radius)
       IN /\ Becomes(app)
          /\ pc' = IF app.gamemap.panic THEN "panic" ELSE "fov"
          /\ last' = [op |-> "update_fov", n |-> last.n + 1, radius |-> radius,
                      before |-> FovBefore]
  /\ UNCHANGED <<gen, pf>>

\* the player presses a movement key between two recomputations
FovBump ==
  /\ FovCallAllowed
  /\ \E direction \in InputDirections :
       LET app == bump_action(App, PLAYER, direction)
       IN /\ Becomes(app)
          /\ pc' = IF app.gamemap.panic THEN "panic" ELSE "fov"
          /\ last' = [op |-> "bump_action", n |-> last.n + 1]
  /\ UNCHANGED <<gen, pf>>

NextFov == FovUpdate \/ FovBump

SpecFov == InitFov /\ [][NextFov]_vars

\* the cells of the box [vx - r, vx + r] x [vy - r, vy + r] clamped to the grid
ClampedBox(gm, v, r) ==
  (Max(v[1] - r, 0) .. Min(v[1] + r, gm.width - 1))
    \X (Max(v[2] - r, 0) .. Min(v[2] + r, gm.height - 1))

\* the cells strictly between v and t that the straight line from v to t
\* touches: those within half a cell of it along the shorter axis
StraightLineBetween(v, t) ==
  LET dx == t[1] - v[1]
      dy == t[2] - v[2]
  IN {c \in Between(v, t) \ {v, t} :
        2 * Abs((c[1] - v[1]) * dy - (c[2] - v[2]) * dx) <= Max(Abs(dx), Abs(dy))}

\* C20: after update_fov from viewer v with radius r the viewer's own cell is
\* visible, and so is every cell t of the clamped box for which every cell
\* strictly between v and t on the straight line is transparent
C20_ClearLineIsVisible ==
  last.op = "update_fov" /\ pc # "panic" =>
    LET v == get_position(gamemap, PLAYER)
    IN /\ is_visible(gamemap, v[1], v[2])
       /\ \A t \in ClampedBox(gamemap, v, last.radius) :
            (\A c \in StraightLineBetween(v, t) : is_transparent(get_ref(gamemap, c[1], c[2])))
              => is_visible(gamemap, t[1], t[2])

\* whether a cast (the cells of a line from the viewer) reaches the cell c
\* with every earlier cell of the cast a transparent cell of the grid
CastReaches(gm, path, c) ==
  \E k \in 1 .. Len(path) :
    /\ path[k] = c
    /\ \A j \in 1 .. (k - 1) :
         /\ in_bounds(gm, path[j][1], path[j][2])
         /\ is_transparent(get_ref(gm, path[j][1], path[j][2]))

\* C21: after update_fov a cell is visible only if it lies in the clamped
\* box and some cast from the viewer to a cell of the clamped box reaches it
\* with every earlier cell of that cast transparent
C21_VisibleOnlyByACast ==
  last.op = "update_fov" /\ pc # "panic" =>
    LET v == get_position(gamemap, PLAYER)
        box == ClampedBox(gamemap, v, last.radius)
    IN \A c \in Cells(gamemap) :
         is_visible(gamemap, c[1], c[2]) =>
           /\ c \in box
           /\ \E t \in box : CastReaches(gamemap, bresenham(v, t), c)

\* the last two calls were update_fov on the same map and viewer, the later
\* one with a radius at least as large, and both returned
WidenedRadius ==
  /\ last.op = "update_fov" /\ pc # "panic"
  /\ last.before.op = "update_fov"
  /\ last.before.radius <= last.radius

\* C22: for a fixed map and viewer every cell visible after update_fov with
\* radius r is visible after update_fov with any radius r' >= r
C22_RadiusMonotone ==
  WidenedRadius =>
    \A i \in DOMAIN gamemap.visible : last.before.visible[i] => gamemap.visible[i]

\* update_fov with a larger radius has shown a cell the smaller radius did not
C22_Witness ==
  /\ WidenedRadius
  /\ last.before.radius < last.radius
  /\ \E i \in DOMAIN gamemap.visible : gamemap.visible[i] /\ ~last.before.visible[i]
  /\ \E i \in DOMAIN gamemap.visible : last.before.visible[i]

\* every visible cell is explored once update_fov has returned
C23_VisibleIsExplored ==
  last.op = "update_fov" /\ pc # "panic" =>
    \A i \in DOMAIN gamemap.visible : gamemap.visible[i] => gamemap.explored[i]

\* no step on a floor, a recomputation or a move of the player, clears explored
C23_ExploredStays ==
  \A i \in DOMAIN gamemap.explored : gamemap.explored[i] => gamemap'.explored[i]

\* C23: across recomputations of the field of view on one floor, with the
\* player moving in between, an explored cell stays explored, and every cell
\* visible after a recomputation is explored
C23_ExploredOnlyGrows == [](C23_VisibleIsExplored) /\ [][C23_ExploredStays]_vars

\* after a move, update_fov has shown a cell that was not explored before,
\* and a cell explored before is remembered though it is no longer visible
C23_Witness ==
  /\ last.op = "update_fov" /\ pc # "panic"
  /\ last.before.op = "bump_action"
  /\ \E i \in DOMAIN gamemap.visible : gamemap.visible[i] /\ ~last.before.explored[i]
  /\ \E i \in DOMAIN gamemap.visible :
       last.before.explored[i] /\ gamemap.explored[i] /\ ~gamemap.visible[i]

\* the coordinates a cast of update_fov hands to get_ref and set_visible:
\* those of the path, cast as u16, up to the first cell whose access panics
\* or whose tile is not transparent
RECURSIVE CastReads(_, _, _, _)
CastReads(gm, path, k, build) ==
  IF k > Len(path) THEN {}
  ELSE LET idx == TileIndex(gm, path[k][1], path[k][2], build)
       IN IF idx = None \/ ~is_transparent(gm.tiles[idx]) THEN {path[k]}
          ELSE {path[k]} \cup CastReads(gm, path, k + 1, build)

\* C29: update_fov reads and writes only cells with 0 <= x < width and
\* 0 <= y < height, for every player position, radius and map: no cast uses
\* an out-of-range coordinate as an index, and the recomputation never aborts
C29_FovStaysOnTheGrid ==
  last.op = "update_fov" =>
    /\ pc # "panic"
    /\ LET v == get_position(gamemap, PLAYER)
       IN \A t \in ClampedBox(gamemap, v, last.radius) :
            \A c \in CastReads(gamemap, CastPath(bresenham(v, t)), 1, gen.build) :
              in_bounds(gamemap, c[1], c[2])

(***************************************************************************)
(* saving.rs: save_game and load_game.  SpecSave: a game is saved when the *)
(* player quits, the program is started again and the save file is loaded  *)
(* from the menu                                                           *)
(***************************************************************************)

\* the inventory, the equipment and the log of the app: no handler of this
\* model writes them
NoInventory == <<>>

\* serde_json::to_string of a tuple: a JSON array of its elements
to_string(fields) == [array |-> fields]

\* serde_json::from_str into a tuple of `arity` elements: an array of any
\* other length is an error
from_str(text, arity) ==
  IF Len(text.array) = arity THEN [ok |-> TRUE, value |-> text.array]
  ELSE [ok |-> FALSE, value |-> <<>>]

\* save_game: the file holds the tuple (gamemap, objects, action_queue,
\* inventory, equipment, log); the clock is not part of it
save_game(app) ==
  to_string(<<app.gamemap, app.objects, app.action_queue,
              NoInventory, NoInventory, NoInventory>>)

\* load_game: the file is parsed as the tuple (GameMap, ObjectMap, Vec<usize>,
\* Vec<Option<usize>>, Log); on an error nothing is assigned, otherwise
\* gamemap and objects are (the queue and the clock never are)
load_game(app, file) ==
  LET result == from_str(file, 5)
  IN IF ~result.ok THEN app
     ELSE [app EXCEPT !.gamemap = result.value[1], !.objects = result.value[2]]

\* the app of a program that was just started: no floor, the clock at 0
FreshApp(build) ==
  [gamemap |-> NoMap, objects |-> objects_add(EmptyMap, player),
   action_queue |-> {}, time |-> 0, build |-> build]

\* the clocks a game is saved at
SaveTimes == {0, FIRST_ACTION_DELAY, 3 * FIRST_ACTION_DELAY}

InitSave ==
  /\ pc = "play"
  /\ \E build \in Builds, now \in SaveTimes :
       \E unlit \in FovScenes(build) :
         LET app == update_fov(unlit, VIEW_RADIUS)
         IN /\ ~app.gamemap.panic
            /\ gen = [build |-> build, file |-> to_string(<<>>)]
            /\ gamemap = app.gamemap
            /\ objects = app.objects
            /\ action_queue = app.action_queue
            /\ time = now
  /\ pf = NoPathfinder
  /\ last = [op |-> "none"]

\* Ctrl-q in the run loop: save_game, and the process ends
SaveGame ==
  /\ pc = "play" /\ last.op = "none"
  /\ gen' = [gen EXCEPT !.file = save_game(App)]
  /\ pc' = "exit"
  /\ last' = [op |-> "save_game", saved |-> App]
  /\ UNCHANGED <<gamemap, objects, action_queue, time, pf>>

\* the program is started again: the menu is shown
StartAgain ==
  /\ pc = "exit"
  /\ Becomes(FreshApp(gen.build))
  /\ pc' = "menu"
  /\ last' = [last EXCEPT !.op = "start"]
  /\ UNCHANGED <<gen, pf>>

\* the key 'l' in the menu: load_game, its result ignored, and the main
\* screen is shown
LoadGame ==
  /\ pc = "menu"
  /\ Becomes(load_game(App, gen.file))
  /\ pc' = "play"
  /\ last' = [last EXCEPT !.op = "load_game"]
  /\ UNCHANGED <<gen, pf>>

NextSave == SaveGame \/ StartAgain \/ LoadGame

SpecSave == InitSave /\ [][NextSave]_vars

\* C26: saving the game and then loading it restores the grid, the actor
\* store and the action queue's (time, id) pairs exactly, and each pending
\* action's time relative to the clock is what it was when the game was saved
C26_SaveLoadRestores ==
  last.op = "load_game" =>
    /\ gamemap = last.saved.gamemap
    /\ objects = last.saved.objects
    /\ action_queue = last.saved.action_queue
    /\ \A a \in action_queue : a.time - time \in
         {b.time - last.saved.time : b \in {b \in last.saved.action_queue : b.id = a.id}}

(***************************************************************************)
(* SpecLine: bresenham(start, end) called on some start and end            *)
(***************************************************************************)

\* the largest coordinate of the end points the calls are made with
MaxCoord == 4

\* the end points of the calls: the callers pass grid coordinates
LinePoints == (0 .. MaxCoord) \X (0 .. MaxCoord)

InitLine ==
  /\ pc = "line"
  /\ last = [op |-> "none"]
  /\ gamemap = NoMap /\ objects = EmptyMap /\ action_queue = {} /\ time = 0
  /\ gen = NoGen /\ pf = NoPathfinder

\* bresenham(start, end)
LineDraw ==
  /\ pc = "line"
  /\ \E start \in LinePoints, end \in LinePoints :
       last' = [op |-> "bresenham", start |-> start, end |-> end,
                ret |-> bresenham(start, end)]
  /\ UNCHANGED <<gamemap, objects, action_queue, time, pc, gen, pf>>

NextLine == LineDraw

SpecLine == InitLine /\ [][NextLine]_vars

\* C28: bresenham(start, end) returns a sequence whose first element is
\* start, whose last element is end, and in which consecutive cells differ
\* by at most 1 in each coordinate; for a horizontal or vertical pair of end
\* points every returned cell keeps the shared coordinate
C28_LineJoinsEndPoints ==
  last.op = "bresenham" =>
    LET path == last.ret
    IN /\ Len(path) >= 1
       /\ path[1] = last.start
       /\ path[Len(path)] = last.end
       /\ \A i \in 1 .. (Len(path) - 1) :
            /\ Abs(path[i + 1][1] - path[i][1]) <= 1
            /\ Abs(path[i + 1][2] - path[i][2]) <= 1
       /\ last.start[1] = last.end[1] => \A i \in 1 .. Len(path) : path[i][1] = last.start[1]
       /\ last.start[2] = last.end[2] => \A i \in 1 .. Len(path) : path[i][2] = last.start[2]

(***************************************************************************)
(* SpecArea: area_place_item called once on a small grid of any terrain    *)
(* with items lying on any of its floor tiles                              *)
(***************************************************************************)

AreaShape == [width |-> 4, height |-> 2]

AreaCells == (0 .. (AreaShape.width - 1)) \X (0 .. (AreaShape.height - 1))

\* the id of the item that lies on a tile before the call
LyingId(c) == coords_to_idx(c[1], c[2], AreaShape.width) + 1

\* the id of the item the call drops
DroppedId == AreaShape.width * AreaShape.height + 1

\* the grid with the given floor tiles and an item on each of the tiles of
\* littered
AreaGrid(floor, littered) ==
  [NewGameMap(AreaShape.width, AreaShape.height, 1) EXCEPT
     !.tiles = [i \in DOMAIN @ |->
                  LET c == idx_to_coords(i, AreaShape.width)
                  IN IF c \notin floor THEN NewTile("Wall")
                     ELSE IF c \in littered
                       THEN [NewTile("Floor") EXCEPT !.item = LyingId(c)]
                     ELSE NewTile("Floor")],
     !.objects = [id \in {LyingId(c) : c \in littered} |->
                    CHOOSE c \in littered : LyingId(c) = id]]

InitArea ==
  /\ pc = "area"
  /\ \E floor \in SUBSET AreaCells :
       \E littered \in SUBSET floor : gamemap = AreaGrid(floor, littered)
  /\ last = [op |-> "none"]
  /\ objects = EmptyMap /\ action_queue = {} /\ time = 0
  /\ gen = NoGen /\ pf = NoPathfinder

\* area_place_item(x, y, id) on in-bounds coordinates
AreaPlaceItem ==
  /\ pc = "area"
  /\ \E c \in AreaCells :
       \E ret \in DropReturns(gamemap, c[1], c[2]) :
         /\ gamemap' = area_place_item(gamemap, c[1], c[2], DroppedId, ret)
         /\ pc' = IF gamemap'.panic THEN "panic" ELSE "returned"
         /\ last' = [op |-> "area_place_item", x |-> c[1], y |-> c[2],
                     id |-> DroppedId, ret |-> ret, before |-> gamemap]
  /\ UNCHANGED <<objects, action_queue, time, gen, pf>>

NextArea == AreaPlaceItem

SpecArea == InitArea /\ [][NextArea]_vars

\* the walkable tiles without an item within the drop radius of (x, y)
FreeNearby(gm, x, y) ==
  {c \in Cells(gm) : /\ Max(Abs(c[1] - x), Abs(c[2] - y)) <= ITEM_DROP_RADIUS
                     /\ is_walkable(get_ref(gm, c[1], c[2]))
                     /\ get_ref(gm, c[1], c[2]).item = None}

\* the call returned Some(p): the item lies on p and nothing else changed
DroppedOn(gm, ret) ==
  /\ pc # "panic"
  /\ get_ref(gamemap, ret[1], ret[2]).item = last.id
  /\ get_position(gamemap, last.id) = ret
  /\ \A i \in DOMAIN gm.tiles :
       i # coords_to_idx(ret[1], ret[2], gm.width) => gamemap.tiles[i] = gm.tiles[i]
  /\ get_ref(gamemap, ret[1], ret[2]).blocker = get_ref(gm, ret[1], ret[2]).blocker
  /\ \A id \in DOMAIN gm.objects : get_position(gamemap, id) = get_position(gm, id)

\* C34 as stated: area_place_item(x, y, id) returns None if and only if no
\* walkable tile without an item lies within ITEM_DROP_RADIUS of (x, y);
\* otherwise it returns such a tile, the item lies on it and no other tile
\* has changed
C34_NoneIffNoFreeTileNearby ==
  last.op = "area_place_item" =>
    /\ (last.ret = NonePos) <=> (FreeNearby(last.before, last.x, last.y) = {})
    /\ last.ret = NonePos => gamemap = last.before
    /\ last.ret # NonePos =>
         /\ last.ret \in FreeNearby(last.before, last.x, last.y)
         /\ DroppedOn(last.before, last.ret)

\* the tiles that steps in the four directions lead to from (x, y) without
\* leaving the walkable tiles within the drop radius and without stepping
\* off a tile that holds no item
RECURSIVE DropRegion(_, _, _, _)
DropRegion(gm, x, y, seen) ==
  LET more == {n \in FreeNearby(gm, x, y) \cup
                    {c \in Cells(gm) : DropOpen(gm, x, y, c)} :
                 \E c \in seen, d \in DropDirs :
                   /\ get_ref(gm, c[1], c[2]).item # None
                   /\ n = <<c[1] + d[1], c[2] + d[2]>>} \ seen
  IN IF more = {} THEN seen ELSE DropRegion(gm, x, y, seen \cup more)

\* the tiles without an item that the search from (x, y) can come to
FreeInReach(gm, x, y) ==
  IF ~DropOpen(gm, x, y, <<x, y>>) THEN {}
  ELSE DropRegion(gm, x, y, {<<x, y>>}) \cap FreeNearby(gm, x, y)

\* C34: area_place_item(x, y, id) returns None if and only if no walkable
\* tile without an item within ITEM_DROP_RADIUS of (x, y) can be come to
\* from (x, y) by steps in the four directions over walkable tiles within
\* the radius that hold items; otherwise it returns such a tile, the item
\* lies on it and no other tile has changed
C34_NoneIffNoFreeTileInReach ==
  last.op = "area_place_item" =>
    /\ (last.ret = NonePos) <=> (FreeInReach(last.before, last.x, last.y) = {})
    /\ last.ret = NonePos => gamemap = last.before
    /\ last.ret # NonePos =>
         /\ last.ret \in FreeInReach(last.before, last.x, last.y)
         /\ DroppedOn(last.before, last.ret)

\* an item was dropped two tiles from (x, y), the tiles in between holding
\* items, while a free floor tile next to (x, y) across the corner was cut
\* off by walls
C34_Witness ==
  /\ last.op = "area_place_item"
  /\ last.ret # NonePos
  /\ Max(Abs(last.ret[1] - last.x), Abs(last.ret[2] - last.y)) = ITEM_DROP_RADIUS
  /\ get_position(gamemap, DroppedId) = last.ret
  /\ \E c \in FreeNearby(last.before, last.x, last.y) :
       /\ Max(Abs(c[1] - last.x), Abs(c[2] - last.y)) = 1
       /\ c \notin FreeInReach(last.before, last.x, last.y)

(***************************************************************************)
(* inventory.rs: drop_item, and SpecInventory: the drop keys Alt+1 .. Alt+0 *)
(* pressed one after the other on inventories of every length              *)
(***************************************************************************)

\* Vec::remove(index), on a sequence whose first element has index 0
VecRemove(v, index) ==
  [i \in 1 .. (Len(v) - 1) |-> IF i <= index THEN v[i] ELSE v[i + 1]]

\* the bound check of a drop that also refuses the index one past the end
NoItemAt_OnePastEnd(inventory, inventory_idx) == inventory_idx >= Len(inventory)

\* the bound check of drop_item: whether it refuses the index
NoItemAt(inventory, inventory_idx) == inventory_idx > Len(inventory)

\* drop_item(app, inventory_idx) on the inventory, the ids of the objects on
\* the map and the objects; indexing the inventory past its end panics
drop_item(bag, inventory_idx) ==
  LET player_pos == bag.objects[PLAYER].pos
      item_id == bag.inventory[inventory_idx + 1]
  IN IF NoItemAt(bag.inventory, inventory_idx) THEN bag
     ELSE IF inventory_idx >= Len(bag.inventory) THEN [bag EXCEPT !.panic = TRUE]
     ELSE [bag EXCEPT !.object_ids = Append(@, item_id),
                      !.objects[item_id].pos = player_pos,
                      !.objects[item_id].render_status = "ShowInFOV",
                      !.inventory = VecRemove(@, inventory_idx)]

\* the index of the last drop key, Alt+0
LastDropIndex == 9

\* the ids of the items of the game
BagItemIds == {1, 2, 3}

\* where the player stands
BagPlayerCells == {<<1, 1>>, <<2, 1>>}

\* the inventories the player can carry: the items picked up in any order
Inventories ==
  {v \in UNION {[1 .. n -> BagItemIds] : n \in 0 .. Cardinality(BagItemIds)} :
     \A i, j \in DOMAIN v : i # j => v[i] # v[j]}

\* the state around an inventory: the player on the map, the carried items
\* hidden, and the items that are not carried lying on a tile of the map
BagOf(inventory, player_pos) ==
  LET carried == {inventory[i] : i \in DOMAIN inventory}
  IN [inventory |-> inventory,
      object_ids |-> <<PLAYER>> \o SetToSeq(BagItemIds \ carried),
      objects |-> [id \in {PLAYER} \cup BagItemIds |->
                     IF id = PLAYER THEN [pos |-> player_pos, render_status |-> "ShowInFOV"]
                     ELSE IF id \in carried THEN [pos |-> <<1, 1>>, render_status |-> "Hide"]
                     ELSE [pos |-> <<1, 1>>, render_status |-> "ShowInFOV"]],
      panic |-> FALSE]

\* the inventory, the map's object ids and the objects as a handler sees them
Bag ==
  [inventory |-> gen.inventory, object_ids |-> gen.object_ids,
   objects |-> objects, panic |-> FALSE]

InitInventory ==
  /\ pc = "inventory"
  /\ \E inventory \in Inventories, player_pos \in BagPlayerCells :
       LET bag == BagOf(inventory, player_pos)
       IN /\ gen = [inventory |-> bag.inventory, object_ids |-> bag.object_ids]
          /\ objects = bag.objects
  /\ last = [op |-> "none"]
  /\ gamemap = NoMap /\ action_queue = {} /\ time = 0 /\ pf = NoPathfinder

\* a drop key: drop_item_from_inventory(index)
DropKey ==
  /\ pc = "inventory"
  /\ \E index \in 0 .. LastDropIndex :
       LET bag == drop_item(Bag, index)
       IN /\ gen' = [inventory |-> bag.inventory, object_ids |-> bag.object_ids]
          /\ objects' = bag.objects
          /\ pc' = IF bag.panic THEN "panic" ELSE "inventory"
          /\ last' = [op |-> "drop_item", index |-> index, before |-> Bag]
  /\ UNCHANGED <<gamemap, action_queue, time, pf>>

\* the player steps to the other cell
BagStep ==
  /\ pc = "inventory"
  /\ \E cell \in BagPlayerCells \ {objects[PLAYER].pos} :
       /\ objects' = [objects EXCEPT ![PLAYER].pos = cell]
       /\ last' = [op |-> "step"]
  /\ UNCHANGED <<gamemap, action_queue, time, pc, gen, pf>>

NextInventory == DropKey \/ BagStep

SpecInventory == InitInventory /\ [][NextInventory]_vars

\* C36: a drop at an inventory index that holds no item (any index >= the
\* inventory's length, the length itself included) leaves the inventory, the
\* map and the objects unchanged and does not abort the process
C36_DropOfNothingIsRefused ==
  last.op = "drop_item" /\ last.index >= Len(last.before.inventory) =>
    /\ pc # "panic"
    /\ gen.inventory = last.before.inventory
    /\ gen.object_ids = last.before.object_ids
    /\ objects = last.before.objects

(***************************************************************************)
(* SpecOccupancy: on a generated floor, the calls that place and remove:   *)
(* move_action, monster_death through take_damage, and area_place_item, in *)
(* any order                                                               *)
(***************************************************************************)

\* how many calls are made on a floor
MaxOccupancyCalls == 5

\* the ids of the actors that stand on the grid
Standing == {id \in DOMAIN gamemap.objects : id \in DOMAIN objects /\ objects[id].has_fighter}

\* the in-bounds cells next to a cell
CellsAround(c) ==
  {n \in Cells(gamemap) : Max(Abs(n[1] - c[1]), Abs(n[2] - c[2])) = 1}

InitOccupancy ==
  /\ pc = "occupancy"
  /\ \E build \in Builds, script \in LevelScripts[1] :
       LET app == new_game([gamemap |-> NoMap, objects |-> objects_add(EmptyMap, player),
                            action_queue |-> {}, time |-> 0, build |-> build],
                           GameConfig, script)
       IN /\ ScriptDrawable(GameConfig, script)
          /\ ~app.gamemap.panic
          /\ gen = [build |-> build]
          /\ gamemap = app.gamemap
          /\ objects = app.objects
          /\ action_queue = app.action_queue
          /\ time = app.time
  /\ pf = NoPathfinder
  /\ last = [n |-> 0, done |-> {}]

OccupancyCallAllowed == pc = "occupancy" /\ last.n < MaxOccupancyCalls

OccupancyAfter(app, op) ==
  /\ Becomes(app)
  /\ pc' = IF app.gamemap.panic THEN "panic" ELSE "occupancy"
  /\ last' = [n |-> last.n + 1, done |-> last.done \cup {op}]

\* move_action(app, id, dest) of an actor to a cell next to it
OccupancyMove ==
  /\ OccupancyCallAllowed
  /\ \E id \in Standing :
       \E dest \in CellsAround(get_position(gamemap, id)) :
         OccupancyAfter(move_action(App, id, dest), "move_action")
  /\ UNCHANGED <<gen, pf>>

\* take_damage(app, id, damage) with the damage that kills a monster:
\* monster_death
OccupancyDeath ==
  /\ OccupancyCallAllowed
  /\ \E id \in Standing \ {PLAYER} :
       OccupancyAfter(take_damage(App, id, objects[id].hp), "monster_death")
  /\ UNCHANGED <<gen, pf>>

\* area_place_item(x, y, id) of a new item at the cell of an actor
OccupancyDrop ==
  /\ OccupancyCallAllowed
  /\ \E dropper \in Standing :
       LET at == get_position(gamemap, dropper)
           id == NextId(objects)
       IN \E ret \in DropReturns(gamemap, at[1], at[2]) :
            OccupancyAfter([App EXCEPT
                              !.gamemap = area_place_item(@, at[1], at[2], id, ret),
                              !.objects = objects_add(@, potion_cure_wounds)],
                           "area_place_item")
  /\ UNCHANGED <<gen, pf>>

NextOccupancy == OccupancyMove \/ OccupancyDeath \/ OccupancyDrop

SpecOccupancy == InitOccupancy /\ [][NextOccupancy]_vars

\* the tiles of a grid that hold an id, as blocker or as item
HoldingTiles(gm, id) ==
  {i \in DOMAIN gm.tiles : gm.tiles[i].blocker = id \/ gm.tiles[i].item = id}

\* the ids the tiles of a grid hold
HeldIds(gm) ==
  ({gm.tiles[i].blocker : i \in DOMAIN gm.tiles} \cup
   {gm.tiles[i].item : i \in DOMAIN gm.tiles}) \ {None}

\* the id-to-position map of a grid and the occupancy of its tiles agree
PositionsAgree(gm) ==
  /\ DOMAIN gm.objects = HeldIds(gm)
  /\ \A id \in HeldIds(gm) :
       HoldingTiles(gm, id) =
         {coords_to_idx(gm.objects[id][1], gm.objects[id][2], gm.width)}

\* C37: in every state get_position(id) is Some(p) if and only if the tile
\* at p holds id as its blocker or its item, and no id is held by two tiles
C37_PositionsMatchOccupancy == pc # "panic" => PositionsAgree(gamemap)

\* a monster has died, an actor has moved and a dropped item lies on a tile
\* on which no actor stands
C37_Witness ==
  /\ last.done = {"move_action", "monster_death", "area_place_item"}
  /\ pc = "occupancy"
  /\ \E id \in DOMAIN objects : objects[id].has_fighter /\ get_position(gamemap, id) = NonePos
  /\ \E i \in DOMAIN gamemap.tiles :
       /\ gamemap.tiles[i].item # None
       /\ gamemap.tiles[i].item >= Cardinality(DOMAIN objects) - MaxOccupancyCalls
       /\ gamemap.tiles[i].blocker = None

(***************************************************************************)
(* SpecSchedule: the run loop with a player who waits every turn, on a     *)
(* scene with one monster whose turns are counted                          *)
(***************************************************************************)

\* how many turns the player takes
MaxScheduleTurns == 7

\* the monsters whose turns are counted
ScheduleMonsters == {rat, orc, troll}

\* the clock values at which the floor of the scene was generated
GenerationTimes == {0, 2 * TURN_TIME}

InitSchedule ==
  /\ pc = "input"
  /\ \E floor \in EngineFloors, build \in Builds, monster \in ScheduleMonsters,
        generated \in GenerationTimes :
       \E player_pos \in floor, monster_pos \in floor :
         LET app == Scene(floor, player_pos, monster, monster_pos,
                          [target |-> None, last_seen_time |-> None],
                          generated + FIRST_ACTION_DELAY, build)
         IN /\ player_pos # monster_pos
            /\ ~app.gamemap.panic
            /\ gen = [build |-> build]
            /\ gamemap = app.gamemap
            /\ objects = app.objects
            /\ action_queue = app.action_queue
            /\ time = generated
            /\ last = [op |-> "none", turns |-> 0, durations |-> {}, keys |-> 0,
                       scheduled |-> generated + FIRST_ACTION_DELAY]
  /\ pf = NoPathfinder

\* the key '.': the player's turn is taken
ScheduleWaitKey ==
  /\ pc = "input"
  /\ last.keys < MaxScheduleTurns
  /\ pc' = "drain"
  /\ last' = [last EXCEPT !.op = "wait", !.keys = @ + 1]
  /\ UNCHANGED <<gamemap, objects, action_queue, time, gen, pf>>

\* handle_monster_turns: an iteration that pops the top entry
SchedulePerform ==
  /\ pc = "drain"
  /\ Continues(action_queue, time)
  /\ LET action == Top(action_queue)
         done == perform_action([App EXCEPT !.action_queue = @ \ {action}], action)
     IN /\ Becomes(done.app)
        /\ pc' = IF done.app.gamemap.panic THEN "panic" ELSE "drain"
        /\ last' = IF done.acted
                     THEN [last EXCEPT !.op = "perform", !.turns = @ + 1,
                                       !.durations = @ \cup {done.time_taken}]
                     ELSE [last EXCEPT !.op = "perform"]
  /\ UNCHANGED <<gen, pf>>

\* handle_monster_turns returns, update_fov, and the clock advances
ScheduleEndTurn ==
  /\ pc = "drain"
  /\ ~Continues(action_queue, time)
  /\ LET app == update_fov(App, VIEW_RADIUS)
     IN /\ Becomes([app EXCEPT !.time = @ + TURN_TIME])
        /\ pc' = IF app.gamemap.panic THEN "panic" ELSE "input"
        /\ last' = [last EXCEPT !.op = "end_turn"]
  /\ UNCHANGED <<gen, pf>>

NextSchedule == ScheduleWaitKey \/ SchedulePerform \/ ScheduleEndTurn

SpecSchedule == InitSchedule /\ [][NextSchedule]_vars

\* the clock of the drain that completed last
DrainedAt == time - TURN_TIME

\* C39: once the drain at clock T has completed, a monster first scheduled
\* at t0 <= T whose every turn took the duration d > 0 has taken
\* floor((T - t0) / d) + 1 turns, and none while T < t0
C39_TurnsByTheClock ==
  last.op = "end_turn" /\ objects[MONSTER].alive =>
    LET d == objects[MONSTER].move_speed
    IN (d > 0 /\ last.durations \subseteq {d}) =>
         last.turns = IF DrainedAt < last.scheduled THEN 0
                      ELSE (DrainedAt - last.scheduled) \div d + 1

\* a rat has taken 5 turns in the 4 drains since its first, the last two of
\* them in one drain
C39_Witness ==
  /\ last.op = "end_turn"
  /\ objects[MONSTER].move_speed = 75
  /\ DrainedAt = last.scheduled + 3 * TURN_TIME
  /\ last.turns = 5
  /\ last.durations = {75}
  /\ get_position(gamemap, MONSTER) # NonePos

====
